---- MODULE Spec2Model ----
(***************************************************************************)
(* FloatChat, frontend/src/components/VisualizationPanel.jsx: the schema   *)
(* normalizer, the intent patterns, the chart generator, the ranker and    *)
(* the KPI aggregation of the VisualizationPanel component; and the        *)
(* Dashboard that drives it, with its useApi hook: the asynchronous        *)
(* request handlers, the auto-load effect, the live float tracker and the  *)
(* chat log.                                                               *)
(*                                                                         *)
(* JavaScript values are records [k, v, d]: k is the kind, v the numerator *)
(* and d the denominator of a number (d = 1 for every input number; only   *)
(* a division yields d > 1).  Strings that the code scans with regular     *)
(* expressions are sequences of one-character strings.  Timestamps are     *)
(* counted in days, not milliseconds, so that they fit the integers of     *)
(* the checker; every modelled date is a UTC midnight.                     *)
(***************************************************************************)
EXTENDS Integers, Sequences, FiniteSets, TLC

\* the panel: its props, what it derives from them, its state
VARIABLES data, profession, intent, normalizedData, candidates,
          visualizations, kpis, activeTab, mounted

\* the Dashboard (part_002) and its useApi hook: the chat log, the panel's
\* switch and dataset, the live tracker, the hook's flags and the
\* asynchronous calls that have not settled yet
VARIABLES messages, showVisualizations, visualizationData, lastUserQuery,
          developerMode, liveTrackerOn, liveFloats, timer, lastCycles,
          loading, error, pending

panelVars == <<data, profession, intent, normalizedData, candidates,
               visualizations, kpis, activeTab, mounted>>

dashVars == <<messages, showVisualizations, visualizationData, lastUserQuery,
              developerMode, liveTrackerOn, liveFloats, timer, lastCycles,
              loading, error, pending>>

vars == <<data, profession, intent, normalizedData, candidates,
          visualizations, kpis, activeTab, mounted,
          messages, showVisualizations, visualizationData, lastUserQuery,
          developerMode, liveTrackerOn, liveFloats, timer, lastCycles,
          loading, error, pending>>

-----------------------------------------------------------------------------
(* JavaScript values *)

Undef == [k |-> "undef", v |-> 0, d |-> 1]
Null == [k |-> "null", v |-> 0, d |-> 1]
NaN == [k |-> "nan", v |-> 0, d |-> 1]
Num(n) == [k |-> "num", v |-> n, d |-> 1]
\* the string "YYYY-MM-DD", held as the number YYYYMMDD
Iso(n) == [k |-> "iso", v |-> n, d |-> 1]
\* a non-empty string that is not a date
Str == [k |-> "str", v |-> 0, d |-> 1]
\* a Date object whose time value is t days; InvalidDate has time value NaN
DateOf(t) == [k |-> "date", v |-> t, d |-> 1]
InvalidDate == [k |-> "date", v |-> 0, d |-> 0]

Abs(n) == IF n < 0 THEN 0 - n ELSE n

RECURSIVE Gcd(_, _)
Gcd(a, b) == IF b = 0 THEN a ELSE Gcd(b, a % b)

\* a / b for numbers a, b with b a positive integer, in lowest terms
Fraction(n, m, g) == [k |-> "num", v |-> n \div g, d |-> m \div g]
Divide(a, b) == IF a.k = "nan" THEN NaN ELSE Fraction(a.v, a.d * b, Gcd(Abs(a.v), a.d * b))

\* a + b for numbers of denominator 1
Plus(a, b) == IF a.k = "nan" \/ b.k = "nan" THEN NaN ELSE Num(a.v + b.v)

\* ToBoolean(x)
Truthy(x) ==
    CASE x.k = "undef" -> FALSE
      [] x.k = "null" -> FALSE
      [] x.k = "nan" -> FALSE
      [] x.k = "num" -> x.v # 0
      [] OTHER -> TRUE

\* a ?? b
Nullish(a, b) == IF a.k = "undef" \/ a.k = "null" THEN b ELSE a

\* a || b
OrElse(a, b) == IF Truthy(a) THEN a ELSE b

\* Number(x) for x a number
Number(x) == IF x.k = "num" THEN x ELSE NaN

\* a <= b for numbers a, b of denominator 1; a comparison with NaN is false
Leq(a, b) == a.k = "num" /\ b.k = "num" /\ a.v <= b.v

\* array.map(f)
Map(s, f(_)) == [i \in 1..Len(s) |-> f(s[i])]

\* array.reduce((a, x) => a + f(x), 0)
RECURSIVE SumFrom(_, _, _, _)
SumFrom(s, f(_), i, acc) ==
    IF i > Len(s) THEN acc ELSE SumFrom(s, f, i + 1, Plus(acc, f(s[i])))
Sum(s, f(_)) == SumFrom(s, f, 1, Num(0))

-----------------------------------------------------------------------------
(* Date: parsing "YYYY-MM-DD" and reading the UTC year and month back *)

DaysOfEra(era, yoe, doy) ==
    era * 146097 + yoe * 365 + yoe \div 4 - yoe \div 100 + doy - 719468
DaysOfYear(y, mp, dd) ==
    DaysOfEra(y \div 400, y % 400, (153 * mp + 2) \div 5 + dd - 1)
DaysFromCivil(y, m, dd) ==
    DaysOfYear(IF m <= 2 THEN y - 1 ELSE y, IF m > 2 THEN m - 3 ELSE m + 9, dd)

CivilOfMonth(y, doy, mp) ==
    [year |-> IF mp < 10 THEN y ELSE y + 1,
     month |-> IF mp < 10 THEN mp + 3 ELSE mp - 9,
     day |-> doy - (153 * mp + 2) \div 5 + 1]
CivilOfDay(y, doy) == CivilOfMonth(y, doy, (5 * doy + 2) \div 153)
CivilOfYear(era, doe, yoe) ==
    CivilOfDay(yoe + era * 400, doe - (365 * yoe + yoe \div 4 - yoe \div 100))
CivilOfEra(era, doe) ==
    CivilOfYear(era, doe,
                (doe - doe \div 1460 + doe \div 36524 - doe \div 146096) \div 365)
CivilFromDays(t) == CivilOfEra((t + 719468) \div 146097, (t + 719468) % 146097)

\* Date.parse of "YYYY-MM-DD"
ParseDate(y, m, dd) ==
    IF m \in 1..12 /\ dd \in 1..31 THEN DateOf(DaysFromCivil(y, m, dd)) ELSE InvalidDate

\* new Date(x)
NewDate(x) ==
    CASE x.k = "num" -> DateOf(x.v)
      [] x.k = "null" -> DateOf(0)
      [] x.k = "iso" -> ParseDate(x.v \div 10000, (x.v \div 100) % 100, x.v % 100)
      [] OTHER -> InvalidDate

\* date.getTime()
GetTime(date) == IF date.d = 0 THEN NaN ELSE Num(date.v)

-----------------------------------------------------------------------------
(* Strings and the regular expressions of the component *)

UpperChars == <<"A","B","C","D","E","F","G","H","I","J","K","L","M",
                "N","O","P","Q","R","S","T","U","V","W","X","Y","Z">>
LowerChars == <<"a","b","c","d","e","f","g","h","i","j","k","l","m",
                "n","o","p","q","r","s","t","u","v","w","x","y","z">>
DigitChars == <<"0","1","2","3","4","5","6","7","8","9">>

Range(s) == {s[i] : i \in 1..Len(s)}

LowerChar(c) ==
    IF c \in Range(UpperChars)
    THEN LowerChars[CHOOSE i \in 1..Len(UpperChars) : UpperChars[i] = c]
    ELSE c

\* s.toLowerCase()
ToLowerCase(s) == [i \in 1..Len(s) |-> LowerChar(s[i])]

\* \w and \s of the regular expressions
IsWordChar(c) == c \in Range(UpperChars) \cup Range(LowerChars) \cup Range(DigitChars) \cup {"_"}
IsSpace(c) == c \in {" ", "\t", "\n"}

\* the literal p occurs in s at position i
MatchAt(s, p, i) ==
    /\ i >= 1
    /\ i + Len(p) - 1 <= Len(s)
    /\ \A j \in 1..Len(p) : s[i + j - 1] = p[j]

\* /p/.test(s)
Contains(s, p) == \E i \in 1..(Len(s) - Len(p) + 1) : MatchAt(s, p, i)

\* /a.*b/.test(s): . matches every character except a line break
ContainsThen(s, a, b) ==
    \E i \in 1..Len(s) : \E j \in (i + Len(a))..Len(s) :
        /\ MatchAt(s, a, i)
        /\ MatchAt(s, b, j)
        /\ \A n \in (i + Len(a))..(j - 1) : s[n] # "\n"

\* /a\s*b/.test(s)
ContainsSpaced(s, a, b) ==
    \E i \in 1..Len(s) : \E j \in (i + Len(a))..Len(s) :
        /\ MatchAt(s, a, i)
        /\ MatchAt(s, b, j)
        /\ \A n \in (i + Len(a))..(j - 1) : IsSpace(s[n])

\* /\bw\b/.test(s), for a literal w of word characters
ContainsWord(s, w) ==
    \E i \in 1..(Len(s) - Len(w) + 1) :
        /\ MatchAt(s, w, i)
        /\ (i = 1 \/ ~IsWordChar(s[i - 1]))
        /\ (i + Len(w) > Len(s) \/ ~IsWordChar(s[i + Len(w)]))

\* /(temp.*pres|profile|vs\s*pressure)/
wantsProfile(q) ==
    \/ ContainsThen(q, <<"t","e","m","p">>, <<"p","r","e","s">>)
    \/ Contains(q, <<"p","r","o","f","i","l","e">>)
    \/ ContainsSpaced(q, <<"v","s">>, <<"p","r","e","s","s","u","r","e">>)

\* /(surface|0-10\s*dbar|shallow)/
wantsSurface(q) ==
    \/ Contains(q, <<"s","u","r","f","a","c","e">>)
    \/ ContainsSpaced(q, <<"0","-","1","0">>, <<"d","b","a","r">>)
    \/ Contains(q, <<"s","h","a","l","l","o","w">>)

\* /(trend|time series|over time|monthly|daily)/
wantsTime(q) ==
    \/ Contains(q, <<"t","r","e","n","d">>)
    \/ Contains(q, <<"t","i","m","e"," ","s","e","r","i","e","s">>)
    \/ Contains(q, <<"o","v","e","r"," ","t","i","m","e">>)
    \/ Contains(q, <<"m","o","n","t","h","l","y">>)
    \/ Contains(q, <<"d","a","i","l","y">>)

\* /(salinity|psal)/
wantsSalinity(q) ==
    \/ Contains(q, <<"s","a","l","i","n","i","t","y">>)
    \/ Contains(q, <<"p","s","a","l">>)

\* /(temperature|temp)/
wantsTemperature(q) ==
    \/ Contains(q, <<"t","e","m","p","e","r","a","t","u","r","e">>)
    \/ Contains(q, <<"t","e","m","p">>)

\* /(histogram|\bhist\b|bar\s*chart)/
wantsHistogram(q) ==
    \/ Contains(q, <<"h","i","s","t","o","g","r","a","m">>)
    \/ ContainsWord(q, <<"h","i","s","t">>)
    \/ ContainsSpaced(q, <<"b","a","r">>, <<"c","h","a","r","t">>)

-----------------------------------------------------------------------------
(* Rows and the schema normalizer *)

\* row[key]: a key the row does not have reads as undefined
Get(row, key) == IF key \in DOMAIN row THEN row[key] ELSE Undef

\* row[key] = value
Put(row, key, value) ==
    [x \in (DOMAIN row) \cup {key} |-> IF x = key THEN value ELSE row[x]]

\* out.temperature_c ?? out.temp ?? out.temperature ?? null
ResolveTempSwapped(out) ==
    Nullish(Nullish(Nullish(Get(out, "temperature_c"), Get(out, "temperature")),
                    Get(out, "temp")), Null)
ResolveTemp(out) ==
    Nullish(Nullish(Nullish(Get(out, "temperature_c"), Get(out, "temp")),
                    Get(out, "temperature")), Null)

\* out.salinity_psu ?? out.psal ?? out.salinity ?? null
ResolveSal(out) ==
    Nullish(Nullish(Nullish(Get(out, "salinity_psu"), Get(out, "psal")),
                    Get(out, "salinity")), Null)

\* out.pressure_dbar ?? out.pres ?? out.pressure ?? null
ResolvePres(out) ==
    Nullish(Nullish(Nullish(Get(out, "pressure_dbar"), Get(out, "pres")),
                    Get(out, "pressure")), Null)

\* out.juld ?? out.time ?? null
ResolveTime(out) == Nullish(Nullish(Get(out, "juld"), Get(out, "time")), Null)

\* if (out.TEMP === undefined) { out.TEMP = ... }, and the three blocks after it
DefaultTemp(out) ==
    IF Get(out, "TEMP") = Undef THEN Put(out, "TEMP", ResolveTemp(out)) ELSE out
DefaultSal(out) ==
    IF Get(out, "PSAL") = Undef THEN Put(out, "PSAL", ResolveSal(out)) ELSE out
DefaultPres(out) ==
    IF Get(out, "PRES") = Undef THEN Put(out, "PRES", ResolvePres(out)) ELSE out
\* the normalizer without its fourth block
DefaultTimeSkipped(out) == out
DefaultTime(out) ==
    IF Get(out, "TIME") = Undef THEN Put(out, "TIME", ResolveTime(out)) ELSE out

\* an object without keys
EmptyRow == [key \in {} |-> Undef]

\* one block that reads the row and writes a result that began as { }
Filled(row, out, key, value) == IF Get(row, key) = Undef THEN Put(out, key, value) ELSE out

\* the normalizer with  const out = { }  in place of  const out = { ...row }
NormalizeRowNoSpread(row) ==
    Filled(row,
           Filled(row,
                  Filled(row,
                         Filled(row, EmptyRow, "TEMP", ResolveTemp(row)),
                         "PSAL", ResolveSal(row)),
                  "PRES", ResolvePres(row)),
           "TIME", ResolveTime(row))

\* the body of data.map((row) => ...) that builds normalizedData
NormalizeRow(row) == DefaultTime(DefaultPres(DefaultSal(DefaultTemp(row))))

\* Array.isArray(data) && data.length > 0
hasData(d) == d.isArray /\ Len(d.rows) > 0

\* normalizedData
Normalize(d) == IF hasData(d) THEN Map(d.rows, NormalizeRow) ELSE <<>>

-----------------------------------------------------------------------------
(* createVisualizations: the candidate charts *)

\* layout.title of each chart; the en dashes of the last three titles are
\* written as hyphens
TitleTempPres == <<"T","e","m","p","e","r","a","t","u","r","e"," ","v","s"," ","P","r","e","s","s","u","r","e"," ","P","r","o","f","i","l","e">>
TitleSalPres == <<"S","a","l","i","n","i","t","y"," ","v","s"," ","P","r","e","s","s","u","r","e"," ","P","r","o","f","i","l","e">>
TitleTempTime == <<"T","e","m","p","e","r","a","t","u","r","e"," ","O","v","e","r"," ","T","i","m","e">>
TitleSurfTemp == <<"S","u","r","f","a","c","e"," ","T","e","m","p","e","r","a","t","u","r","e"," ","D","i","s","t","r","i","b","u","t","i","o","n"," ","(","0","-","1","0"," ","d","b","a","r",")">>
TitleSurfSal == <<"S","u","r","f","a","c","e"," ","S","a","l","i","n","i","t","y"," ","D","i","s","t","r","i","b","u","t","i","o","n"," ","(","0","-","1","0"," ","d","b","a","r",")">>
TitleSummary == <<"S","u","m","m","a","r","y"," ","I","n","d","i","c","a","t","o","r","s">>
TitleProfiles == <<"P","r","o","f","i","l","e","s"," ","O","v","e","r","v","i","e","w">>
TitleTempDist == <<"T","e","m","p","e","r","a","t","u","r","e"," ","D","i","s","t","r","i","b","u","t","i","o","n">>
TitleSalDist == <<"S","a","l","i","n","i","t","y"," ","D","i","s","t","r","i","b","u","t","i","o","n">>
TitleTS == <<"T","e","m","p","e","r","a","t","u","r","e","-","S","a","l","i","n","i","t","y"," ","(","T","-","S",")"," ","D","i","a","g","r","a","m">>
TitleHeatmap == <<"T","i","m","e","-","D","e","p","t","h"," ","H","e","a","t","m","a","p"," ","(","T","e","m","p","e","r","a","t","u","r","e",")">>
TitleMonthly == <<"M","o","n","t","h","l","y"," ","T","e","m","p","e","r","a","t","u","r","e"," ","D","i","s","t","r","i","b","u","t","i","o","n">>
\* the default persona, 'Researcher'
DefaultProfession == <<"R","e","s","e","a","r","c","h","e","r">>

SurfaceMaxPres == 10
HistSurfaceMin == 10
TSMin == 20
HeatmapMin == 20
HeatmapCap == 5000
MinMonths == 2

\* one trace of a chart; a chart without y or z has the empty sequence there,
\* and only the traces of the box plot are told apart by their name
Trace(type, x, y, z, name) ==
    [type |-> type, x |-> x, y |-> y, z |-> z, name |-> name]

\* { type, data, layout: { title } }
Chart(type, traces, title) == [type |-> type, data |-> traces, title |-> title]

TEMP(d) == Get(d, "TEMP")
PSAL(d) == Get(d, "PSAL")
PRES(d) == Get(d, "PRES")
TIME(d) == Get(d, "TIME")

\* the n-th label of the x axis of the bar chart
Label(n) == [k |-> "str", v |-> n, d |-> 1]

\* the test without the default:  d.PRES <= 10
IsSurfaceDefined(d) == Leq(PRES(d), Num(SurfaceMaxPres))
\* (d.PRES || 0) <= 10
IsSurface(d) == Leq(OrElse(PRES(d), Num(0)), Num(SurfaceMaxPres))

\* v.type === 'histogram' || (v.data && v.data[0]?.type === 'histogram')
IsHistogram(v) ==
    v.type = "histogram" \/ (Len(v.data) > 0 /\ v.data[1].type = "histogram")

\* histVisuals.forEach(h => visualizations.unshift(h))
RECURSIVE UnshiftAll(_, _, _)
UnshiftAll(hs, i, vs) ==
    IF i > Len(hs) THEN vs ELSE UnshiftAll(hs, i + 1, <<hs[i]>> \o vs)

\* String(n), for n >= 0
RECURSIVE NumberToString(_)
NumberToString(n) ==
    IF n < 10 THEN <<DigitChars[n + 1]>>
    ELSE NumberToString(n \div 10) \o <<DigitChars[(n % 10) + 1]>>

\* s.padStart(2, '0')
PadStart2(s) == IF Len(s) < 2 THEN <<"0">> \o s ELSE s

\* `${dt.getUTCFullYear()}-${String(dt.getUTCMonth() + 1).padStart(2, '0')}`
KeyOf(c) == NumberToString(c.year) \o <<"-">> \o PadStart2(NumberToString(c.month))
MonthKey(dt) == KeyOf(CivilFromDays(dt.v))

\* the code unit of a character of a month key
CharCode(c) ==
    IF c = "-" THEN 45
    ELSE 47 + (CHOOSE i \in 1..Len(DigitChars) : DigitChars[i] = c)

\* a < b in the order of the default sort: by code units, a prefix first
RECURSIVE StringLess(_, _)
StringLess(a, b) ==
    IF Len(b) = 0 THEN FALSE
    ELSE IF Len(a) = 0 THEN TRUE
    ELSE IF CharCode(Head(a)) # CharCode(Head(b))
         THEN CharCode(Head(a)) < CharCode(Head(b))
         ELSE StringLess(Tail(a), Tail(b))

\* hasTemp, hasSal, hasTime
hasTemp(nd) == \E i \in 1..Len(nd) : TEMP(nd[i]) # Undef /\ PRES(nd[i]) # Undef
hasSal(nd) == \E i \in 1..Len(nd) : PSAL(nd[i]) # Undef /\ PRES(nd[i]) # Undef
hasTime(nd) == \E i \in 1..Len(nd) : TIME(nd[i]) # Undef

\* normalizedData.filter(d => d.TEMP !== null && d.PRES !== null)
TempData(nd) == SelectSeq(nd, LAMBDA d : TEMP(d) # Null /\ PRES(d) # Null)
\* salData without the filter
SalDataUnfiltered(nd) == nd
\* normalizedData.filter(d => d.PSAL !== null && d.PRES !== null)
SalData(nd) == SelectSeq(nd, LAMBDA d : PSAL(d) # Null /\ PRES(d) # Null)
\* normalizedData.filter(d => d.TIME !== null)
TimeData(nd) == SelectSeq(nd, LAMBDA d : TIME(d) # Null)

\* the scatter trace of a field against pressure
ProfileTrace(rows, field(_)) == Trace("scatter", Map(rows, field), Map(rows, PRES), <<>>, <<>>)

\* a chart of one trace over rows, pushed only if there are rows
ChartIf(available, rows, type, trace, title) ==
    IF available /\ Len(rows) > 0 THEN <<Chart(type, <<trace>>, title)>> ELSE <<>>

\* the trace of Temperature Over Time
TimeTrace(rows) ==
    Trace("scatter", Map(rows, LAMBDA d : NewDate(TIME(d))),
          Map(rows, LAMBDA d : OrElse(TEMP(d), Num(0))), <<>>, <<>>)

\* if (prof === 'researcher') { ... }
ResearcherCharts(nd) ==
    ChartIf(hasTemp(nd), TempData(nd), "scatter", ProfileTrace(TempData(nd), TEMP), TitleTempPres)
    \o ChartIf(hasSal(nd), SalData(nd), "scatter", ProfileTrace(SalData(nd), PSAL), TitleSalPres)
    \o ChartIf(hasTime(nd), TimeData(nd), "scatter", TimeTrace(TimeData(nd)), TitleTempTime)

\* normalizedData.filter(d => (d.PRES || 0) <= 10 && d.TEMP !== null)
SurfaceTemp(nd) == SelectSeq(nd, LAMBDA d : IsSurface(d) /\ TEMP(d) # Null)
\* normalizedData.filter(d => (d.PRES || 0) <= 10 && d.PSAL !== null)
SurfaceSal(nd) == SelectSeq(nd, LAMBDA d : IsSurface(d) /\ PSAL(d) # Null)

\* the histogram trace of a field
HistTrace(rows, field(_)) == Trace("histogram", Map(rows, field), <<>>, <<>>, <<>>)

\* if (prof === 'fisherman') { ... }
FishermanCharts(nd) ==
    ChartIf(hasTemp(nd), SurfaceTemp(nd), "histogram",
            HistTrace(SurfaceTemp(nd), TEMP), TitleSurfTemp)
    \o ChartIf(hasSal(nd), SurfaceSal(nd), "histogram",
               HistTrace(SurfaceSal(nd), PSAL), TitleSurfSal)

\* a divisor that counts one value too many
Max1Plus(n) == n + 1
\* Math.max(1, n)
Max1(n) == IF n > 1 THEN n ELSE 1

\* Number.isFinite(x) ? x : 0
FiniteOrZero(x) == IF x.k = "num" THEN x ELSE Num(0)

\* reduce((s, d) => s + (d.F || 0), 0) / Math.max(1, filter(d => d.F !== null && d.F !== undefined).length)
BarMean(nd, field(_)) ==
    Divide(Sum(nd, LAMBDA d : OrElse(field(d), Num(0))),
           Max1(Len(SelectSeq(nd, LAMBDA d : field(d) # Null /\ field(d) # Undef))))

\* if (prof === 'policymaker') { ... }
PolicymakerCharts(nd) ==
    <<Chart("bar",
        <<Trace("bar", <<Label(1), Label(2), Label(3)>>,
                <<Num(Len(nd)), FiniteOrZero(BarMean(nd, TEMP)), FiniteOrZero(BarMean(nd, PSAL))>>,
                <<>>, <<>>)>>,
        TitleSummary)>>

\* traces of the student chart
StudentTraces(nd) ==
    (IF hasTemp(nd) /\ Len(TempData(nd)) > 0
     THEN <<ProfileTrace(TempData(nd), TEMP)>> ELSE <<>>)
    \o (IF hasSal(nd) /\ Len(SalData(nd)) > 0
        THEN <<ProfileTrace(SalData(nd), PSAL)>> ELSE <<>>)

\* if (traces.length > 0) visualizations.push(...)
ChartOfTraces(traces) ==
    IF Len(traces) > 0 THEN <<Chart("scatter", traces, TitleProfiles)>> ELSE <<>>

\* if (prof === 'student') { ... }
StudentCharts(nd) == ChartOfTraces(StudentTraces(nd))

\* the four persona blocks
PersonaCharts(nd, prof) ==
    (IF prof = <<"r","e","s","e","a","r","c","h","e","r">> THEN ResearcherCharts(nd) ELSE <<>>)
    \o (IF prof = <<"f","i","s","h","e","r","m","a","n">> THEN FishermanCharts(nd) ELSE <<>>)
    \o (IF prof = <<"p","o","l","i","c","y","m","a","k","e","r">>
        THEN PolicymakerCharts(nd) ELSE <<>>)
    \o (IF prof = <<"s","t","u","d","e","n","t">> THEN StudentCharts(nd) ELSE <<>>)

\* the choice of the surface rows with  >= 10  in place of  > 10
UseSurfaceAtLeast(surface) == Len(surface) >= HistSurfaceMin
\* tempSurface.length > 10, salSurface.length > 10
UseSurface(surface) == Len(surface) > HistSurfaceMin

\* const source = surface.length > 10 ? surface : all, and the title that goes with it
HistChart(available, surface, all, field(_), surfaceTitle, allTitle) ==
    IF UseSurface(surface)
    THEN ChartIf(available, surface, "histogram", HistTrace(surface, field), surfaceTitle)
    ELSE ChartIf(available, all, "histogram", HistTrace(all, field), allTitle)

\* histVisuals
HistVisuals(nd) ==
    HistChart(hasTemp(nd), SurfaceTemp(nd), SelectSeq(nd, LAMBDA d : TEMP(d) # Null), TEMP,
              TitleSurfTemp, TitleTempDist)
    \o HistChart(hasSal(nd), SurfaceSal(nd), SelectSeq(nd, LAMBDA d : PSAL(d) # Null), PSAL,
                 TitleSurfSal, TitleSalDist)

\* the insertion without the test of hasAnyHistogram
PrependAlways(hists, vs) == UnshiftAll(hists, 1, vs)
\* if (!hasAnyHistogram && histVisuals.length > 0) histVisuals.forEach(...)
Prepend(hists, vs) ==
    IF ~(\E i \in 1..Len(vs) : IsHistogram(vs[i])) /\ Len(hists) > 0
    THEN UnshiftAll(hists, 1, vs)
    ELSE vs

\* the generator without the override block
HistogramIntentOff(nd, q, vs) == vs
\* if (wantsHistogram) { ... }
HistogramIntent(nd, q, vs) == IF wantsHistogram(q) THEN Prepend(HistVisuals(nd), vs) ELSE vs

\* the T-S diagram with  tsData.length >= 20  in place of  tsData.length > 20
TSOfAtLeast(available, tsData) ==
    IF available /\ Len(tsData) >= TSMin
    THEN <<Chart("scatter",
             <<Trace("scatter", Map(tsData, PSAL), Map(tsData, TEMP), <<>>, <<>>)>>,
             TitleTS)>>
    ELSE <<>>

\* the T-S diagram of tsData
TSOf(available, tsData) ==
    IF available /\ Len(tsData) > TSMin
    THEN <<Chart("scatter",
             <<Trace("scatter", Map(tsData, PSAL), Map(tsData, TEMP), <<>>, <<>>)>>,
             TitleTS)>>
    ELSE <<>>

\* Advanced: Temperature-Salinity (T-S) diagram
TSChart(nd) ==
    TSOf(hasTemp(nd) /\ hasSal(nd),
         SelectSeq(nd, LAMBDA d : TEMP(d) # Null /\ PSAL(d) # Null))

\* the rows without the cap
SliceAll(rows, n) == rows
\* rows.slice(0, n)
Slice(rows, n) == SubSeq(rows, 1, IF Len(rows) < n THEN Len(rows) ELSE n)

\* the heatmap of td
HeatmapOf(available, td) ==
    IF available /\ Len(td) > HeatmapMin
    THEN <<Chart("heatmap",
             <<Trace("histogram2dcontour", Map(td, LAMBDA d : NewDate(TIME(d))),
                     Map(td, PRES), Map(td, TEMP), <<>>)>>,
             TitleHeatmap)>>
    ELSE <<>>

\* Advanced: Time-Depth heatmap (TEMP)
HeatmapChart(nd) ==
    HeatmapOf(hasTemp(nd) /\ hasTime(nd),
              Slice(SelectSeq(nd, LAMBDA d : TIME(d) # Null /\ PRES(d) # Null /\ TEMP(d) # Null),
                    HeatmapCap))

\* byMonth[k] = byMonth[k] || []; byMonth[k].push(value): the groups are kept in
\* the order their keys were first seen, each [key, values]
AddToMonth(groups, key, value) ==
    IF \E g \in 1..Len(groups) : groups[g].key = key
    THEN [g \in 1..Len(groups) |->
            IF groups[g].key = key
            THEN [key |-> key, values |-> Append(groups[g].values, value)]
            ELSE groups[g]]
    ELSE Append(groups, [key |-> key, values |-> <<value>>])

\* the body of the forEach that fills byMonth
AddRow(groups, d, dt) ==
    IF Truthy(TIME(d)) /\ TEMP(d) # Null /\ TEMP(d) # Undef /\ GetTime(dt) # NaN
    THEN AddToMonth(groups, MonthKey(dt), Number(TEMP(d)))
    ELSE groups

\* byMonth after the rows 1..i
RECURSIVE ByMonth(_, _)
ByMonth(nd, i) ==
    IF i = 0 THEN <<>> ELSE AddRow(ByMonth(nd, i - 1), nd[i], NewDate(TIME(nd[i])))

\* the place of a key in the sorted keys: after every key that is not greater
InsertKey(sorted, key, n) ==
    SubSeq(sorted, 1, n) \o <<key>> \o SubSeq(sorted, n + 1, Len(sorted))
PlaceKey(sorted, key) ==
    InsertKey(sorted, key, Cardinality({j \in 1..Len(sorted) : ~StringLess(key, sorted[j])}))

\* Object.keys(byMonth).sort()
RECURSIVE SortKeys(_, _)
SortKeys(keys, i) == IF i = 0 THEN <<>> ELSE PlaceKey(SortKeys(keys, i - 1), keys[i])

\* byMonth[lab]
ValuesOf(groups, lab) == groups[CHOOSE g \in 1..Len(groups) : groups[g].key = lab].values

\* the box plot of the sorted labels
MonthlyOf(available, groups, labels) ==
    IF available /\ Len(labels) >= MinMonths
    THEN <<Chart("box",
             Map(labels, LAMBDA lab : Trace("box", <<>>, ValuesOf(groups, lab), <<>>, lab)),
             TitleMonthly)>>
    ELSE <<>>

\* labels of the groups
Labels(groups) == SortKeys(Map(groups, LAMBDA g : g.key), Len(groups))

MonthlyFrom(available, groups) == MonthlyOf(available, groups, Labels(groups))

\* Advanced: Monthly boxplots (TEMP)
MonthlyChart(nd) == MonthlyFrom(hasTemp(nd) /\ hasTime(nd), ByMonth(nd, Len(nd)))

\* String(profession || 'Researcher').toLowerCase()
Prof(prop) == ToLowerCase(IF Len(prop) > 0 THEN prop ELSE DefaultProfession)

\* the generator with the advanced charts inside the Researcher block
createVisualizationsNested(nd, prop, text) ==
    HistogramIntent(nd, ToLowerCase(text), PersonaCharts(nd, Prof(prop)))
    \o (IF Prof(prop) = ToLowerCase(DefaultProfession)
        THEN TSChart(nd) \o HeatmapChart(nd) \o MonthlyChart(nd)
        ELSE <<>>)

createVisualizations(nd, prop, text) ==
    HistogramIntent(nd, ToLowerCase(text), PersonaCharts(nd, Prof(prop)))
    \o TSChart(nd) \o HeatmapChart(nd) \o MonthlyChart(nd)

-----------------------------------------------------------------------------
(* Intent-aware ordering/filtering *)

\* visualizations.filter(v => v.type === 'histogram' || ...)
OnlyHists(vs) == SelectSeq(vs, IsHistogram)

\* the narrowing left out
HistogramFilterNever(vs, q) == vs
\* the narrowing without the test of the intent
HistogramFilterAlways(vs, q) == IF Len(OnlyHists(vs)) > 0 THEN OnlyHists(vs) ELSE vs
\* the histogram-only narrowing of the list
HistogramFilter(vs, q) ==
    IF wantsHistogram(q)
    THEN (IF Len(OnlyHists(vs)) > 0 THEN OnlyHists(vs) ELSE vs)
    ELSE vs

\* if (/pressure/.test(title) || /(temp.*pres|profile)/.test(q)) score += 3
PressureBonus(title, q) ==
    IF \/ Contains(title, <<"p","r","e","s","s","u","r","e">>)
       \/ ContainsThen(q, <<"t","e","m","p">>, <<"p","r","e","s">>)
       \/ Contains(q, <<"p","r","o","f","i","l","e">>)
    THEN 3 ELSE 0

\* if (/salinity/.test(title) && /(salinity|psal)/.test(q)) score += 2
SalinityBonus(title, q) ==
    IF /\ Contains(title, <<"s","a","l","i","n","i","t","y">>)
       /\ (\/ Contains(q, <<"s","a","l","i","n","i","t","y">>)
           \/ Contains(q, <<"p","s","a","l">>))
    THEN 2 ELSE 0

\* if (/temperature/.test(title) && /(temperature|temp)/.test(q)) score += 2
TemperatureBonus(title, q) ==
    IF /\ Contains(title, <<"t","e","m","p","e","r","a","t","u","r","e">>)
       /\ (\/ Contains(q, <<"t","e","m","p","e","r","a","t","u","r","e">>)
           \/ Contains(q, <<"t","e","m","p">>))
    THEN 2 ELSE 0

\* if (/time/.test(title) && /(trend|time series|over time|monthly|daily)/.test(q)) score += 3
TimeBonus(title, q) ==
    IF /\ Contains(title, <<"t","i","m","e">>)
       /\ (\/ Contains(q, <<"t","r","e","n","d">>)
           \/ Contains(q, <<"t","i","m","e"," ","s","e","r","i","e","s">>)
           \/ Contains(q, <<"o","v","e","r"," ","t","i","m","e">>)
           \/ Contains(q, <<"m","o","n","t","h","l","y">>)
           \/ Contains(q, <<"d","a","i","l","y">>))
    THEN 3 ELSE 0

\* if (/surface|distribution/.test(title) && /(surface|0-10\s*dbar)/.test(q)) score += 2
SurfaceBonus(title, q) ==
    IF /\ (\/ Contains(title, <<"s","u","r","f","a","c","e">>)
           \/ Contains(title, <<"d","i","s","t","r","i","b","u","t","i","o","n">>))
       /\ (\/ Contains(q, <<"s","u","r","f","a","c","e">>)
           \/ ContainsSpaced(q, <<"0","-","1","0">>, <<"d","b","a","r">>))
    THEN 2 ELSE 0

\* the score of one chart
ScoreOf(title, q) ==
    PressureBonus(title, q) + SalinityBonus(title, q) + TemperatureBonus(title, q)
        + TimeBonus(title, q) + SurfaceBonus(title, q)
Score(viz, q) == ScoreOf(ToLowerCase(viz.title), q)

\* visualizations.map((viz, idx) => ({ idx, score }))
Priority(vs, q) == [i \in 1..Len(vs) |-> [idx |-> i, score |-> Score(vs[i], q)]]

\* the place an unstable sort may choose: before the entries of equal score
InsertAtUnstable(sorted, x) == Cardinality({j \in 1..Len(sorted) : sorted[j].score > x.score})
\* where the stable sort puts x into the sorted prefix: after every entry that
\* the comparator (a, b) => b.score - a.score does not put behind x
InsertAt(sorted, x) == Cardinality({j \in 1..Len(sorted) : sorted[j].score >= x.score})

\* the sorted prefix with x put at place n
InsertEntry(sorted, x, n) ==
    SubSeq(sorted, 1, n) \o <<x>> \o SubSeq(sorted, n + 1, Len(sorted))

PlaceEntry(sorted, x) == InsertEntry(sorted, x, InsertAt(sorted, x))

\* priority.sort((a, b) => b.score - a.score): the first i entries, sorted
RECURSIVE SortFirst(_, _)
SortFirst(p, i) == IF i = 0 THEN <<>> ELSE PlaceEntry(SortFirst(p, i - 1), p[i])
Sort(p) == SortFirst(p, Len(p))

\* priority.map(p => visualizations[p.idx])
Reorder(vs, p) == [i \in 1..Len(p) |-> vs[p[i].idx]]

\* the block  if (visualizations.length > 0 && intent) { ... }
Sorted(kept, q) == Reorder(kept, Sort(Priority(kept, q)))
Rank(vs, text) ==
    IF Len(vs) > 0 /\ Len(text) > 0
    THEN Sorted(HistogramFilter(vs, ToLowerCase(text)), ToLowerCase(text))
    ELSE vs

-----------------------------------------------------------------------------
(* KPI calculations *)

\* Math.min(...times) and Math.max(...times), times not empty
MathMin(times) == CHOOSE t \in Range(times) : \A u \in Range(times) : t.v <= u.v
MathMax(times) == CHOOSE t \in Range(times) : \A u \in Range(times) : t.v >= u.v

\* d.TIME ? new Date(d.TIME).getTime() : null
TimeOf(d) == IF Truthy(TIME(d)) THEN GetTime(NewDate(TIME(d))) ELSE Null

\* normalizedData.map(...).filter(Boolean)
Times(nd) == SelectSeq(Map(nd, TimeOf), Truthy)

\* the filter without the tests for null and NaN spelled out: v => v
IsValidNumberTruthy(x) == Truthy(x)
\* v => v !== null && v !== undefined && !Number.isNaN(v)
IsValidNumber(x) == x # Null /\ x # Undef /\ x.k # "nan"

\* values.length ? values.reduce((a, b) => a + Number(b), 0) / values.length : null
Average(values) ==
    IF Len(values) > 0 THEN Divide(Sum(values, Number), Len(values)) ELSE Null

\* times.length ? new Date(Math.min(...times)) : null, and the same with Math.max
MinTime(times) == IF Len(times) > 0 THEN NewDate(MathMin(times)) ELSE Null
MaxTime(times) == IF Len(times) > 0 THEN NewDate(MathMax(times)) ELSE Null

\* { numRecords, avgTemp, avgSal, minTime, maxTime }
Summary(d, nd) ==
    [numRecords |-> Len(d.rows),
     avgTemp |-> Average(SelectSeq(Map(nd, TEMP), IsValidNumber)),
     avgSal |-> Average(SelectSeq(Map(nd, PSAL), IsValidNumber)),
     minTime |-> MinTime(Times(nd)),
     maxTime |-> MaxTime(Times(nd))]

\* the memo without its first line
KpisAlways(d, nd) == Summary(d, nd)
\* kpis: if (!hasData) return null
Kpis(d, nd) == IF ~hasData(d) THEN Null ELSE Summary(d, nd)

-----------------------------------------------------------------------------
(* The component: props, one render per change of a prop, the tab state *)

Table == [kind |-> "table", index |-> 0]
Viz(i) == [kind |-> "viz", index |-> i]

\* the effect on [intent, hasData]: the tab after it has run
AutoFocus(tab, d, text) ==
    IF wantsHistogram(ToLowerCase(text)) /\ hasData(d) THEN Viz(0) ELSE tab

\* the values one render computes from the rows, the candidates and the intent
View(d, nd, cs, text) ==
    [normalizedData |-> nd,
     candidates |-> cs,
     visualizations |-> Rank(cs, text),
     kpis |-> Kpis(d, nd)]

\* hasData ? createVisualizations() : []
Candidates(d, nd, p, text) ==
    IF hasData(d) THEN createVisualizations(nd, p, text) ELSE <<>>

ViewOf(d, nd, p, text) == View(d, nd, Candidates(d, nd, p, text), text)

\* one render of the component with the props d, p, text
RenderOf(d, p, text) == ViewOf(d, Normalize(d), p, text)

-----------------------------------------------------------------------------
(* Inputs *)

MaxRows == 2
MaxKpiRows == 3
MaxAlias == 2

NoData == [isArray |-> FALSE, rows |-> <<>>]
Rows(rs) == [isArray |-> TRUE, rows |-> rs]

SeqsUpTo(S, n) == UNION {[1..m -> S] : m \in 0..n}

Repeat(r, n) == [i \in 1..n |-> r]

RowAlias ==
    [temperature_c |-> Num(10), salinity_psu |-> Num(35), pressure_dbar |-> Num(5),
     juld |-> Iso(20230105), float_id |-> Num(7)]
RowCanon ==
    [TEMP |-> Num(20), PSAL |-> Null, PRES |-> Num(50), TIME |-> Iso(20230220)]
RowBare == [temp |-> Num(0), time |-> Str]
\* a row without any of the keys the normalizer reads
RowOther == [float_id |-> Num(7)]

PanelRows == {RowAlias, RowCanon, RowBare}

\* 21 near-surface rows of one month and one deeper row of the next month
BigRows == Repeat(RowAlias, TSMin + 1) \o <<RowCanon>>

\* n near-surface rows and one deeper row, with n at each threshold of the
\* generator and one above it
ThresholdRows ==
    {Repeat(RowAlias, n) \o <<RowCanon>> :
        n \in {HistSurfaceMin, HistSurfaceMin + 1, TSMin, TSMin + 1}}

Datasets ==
    {NoData, Rows(BigRows), Rows(<<RowOther>>)}
    \cup {Rows(rs) : rs \in ThresholdRows}
    \cup {Rows(rs) : rs \in SeqsUpTo(PanelRows, MaxRows)}

EmptyText == <<>>
IntentHistogram == <<"H","i","s","t","o","g","r","a","m"," ","o","f"," ","t","e","m","p","e","r","a","t","u","r","e">>
IntentHistory == <<"h","i","s","t","o","r","y">>
IntentHist == <<"s","h","o","w"," ","h","i","s","t">>
IntentBarChart == <<"b","a","r"," "," ","c","h","a","r","t">>
IntentProfile == <<"t","e","m","p"," ","v","s"," ","p","r","e","s","s","u","r","e"," ","p","r","o","f","i","l","e">>
IntentVsPressure == <<"s","a","l","i","n","i","t","y"," ","v","s"," ","p","r","e","s","s","u","r","e">>
IntentSurface == <<"s","u","r","f","a","c","e"," ","s","a","l","i","n","i","t","y">>
IntentTrend == <<"m","o","n","t","h","l","y"," ","t","r","e","n","d">>
IntentShallow == <<"s","h","a","l","l","o","w"," ","t","e","m","p","e","r","a","t","u","r","e">>
Intents ==
    {EmptyText, IntentHistogram, IntentHistory, IntentHist, IntentBarChart,
     IntentProfile, IntentVsPressure, IntentSurface, IntentTrend, IntentShallow}

Fisherman == <<"F","i","s","h","e","r","m","a","n">>
Policymaker == <<"P","o","l","i","c","y","m","a","k","e","r">>
Student == <<"S","t","u","d","e","n","t">>
Sailor == <<"S","a","i","l","o","r">>
Professions == {DefaultProfession, Fisherman, Policymaker, Student, Sailor, EmptyText}

\* a render depends on the props only: the renders of the props that the
\* panel is driven with, computed once
Rendered ==
    [d \in Datasets |-> [p \in Professions |-> [text \in Intents |-> RenderOf(d, p, text)]]]

Render(d, p, text) ==
    \E r \in {IF d \in Datasets /\ p \in Professions /\ text \in Intents
               THEN Rendered[d][p][text]
               ELSE RenderOf(d, p, text)} :
        /\ normalizedData' = r.normalizedData
        /\ candidates' = r.candidates
        /\ visualizations' = r.visualizations
        /\ kpis' = r.kpis

-----------------------------------------------------------------------------
(* The Dashboard's state *)

\* the floats that a poll may report
Floats == {1, 2}

\* an asynchronous call in flight: what was called, a number that tells
\* calls of one kind apart, the chat request or the tracker session it
\* belongs to, and the developerMode its caller closed over
Task(op, id, of, dev) == [op |-> op, id |-> id, of |-> of, dev |-> dev]

\* new Map()
NoCycles == [f \in Floats |-> Undef]

\* the Dashboard after its first render and its mount effects: the tracker
\* is on, its first poll is in flight and its interval timer is set
InitDash ==
    /\ messages = <<>>
    /\ showVisualizations = FALSE
    /\ visualizationData = NoData
    /\ lastUserQuery = EmptyText
    /\ developerMode = FALSE
    /\ liveTrackerOn = TRUE
    /\ liveFloats = <<>>
    /\ timer = 1
    /\ lastCycles = <<NoCycles>>
    /\ loading = FALSE
    /\ error = Null
    /\ pending = {Task("poll", 1, 1, FALSE)}

-----------------------------------------------------------------------------
(* The panel's handlers *)

Mount ==
    /\ ~mounted
    /\ mounted' = TRUE
    /\ Render(data, profession, intent)
    /\ activeTab' = AutoFocus(Table, data, intent)
    /\ UNCHANGED <<data, profession, intent>>
    /\ UNCHANGED dashVars

SetData(d) ==
    /\ mounted
    /\ d # data
    /\ data' = d
    /\ Render(d, profession, intent)
    /\ activeTab' = IF hasData(d) # hasData(data)
                    THEN AutoFocus(activeTab, d, intent)
                    ELSE activeTab
    /\ UNCHANGED <<profession, intent, mounted>>
    /\ UNCHANGED dashVars

SetProfession(p) ==
    /\ mounted
    /\ p # profession
    /\ profession' = p
    /\ Render(data, p, intent)
    /\ UNCHANGED <<data, intent, activeTab, mounted>>
    /\ UNCHANGED dashVars

SetIntent(text) ==
    /\ mounted
    /\ text # intent
    /\ intent' = text
    /\ Render(data, profession, text)
    /\ activeTab' = AutoFocus(activeTab, data, text)
    /\ UNCHANGED <<data, profession, mounted>>
    /\ UNCHANGED dashVars

ClickTab(tab) ==
    /\ mounted
    /\ tab # activeTab
    /\ activeTab' = tab
    /\ UNCHANGED <<data, profession, intent, normalizedData, candidates,
                   visualizations, kpis, mounted>>
    /\ UNCHANGED dashVars

\* onClose: the dashboard stops rendering the panel
Close ==
    /\ mounted
    /\ mounted' = FALSE
    /\ normalizedData' = <<>>
    /\ candidates' = <<>>
    /\ visualizations' = <<>>
    /\ kpis' = Null
    /\ activeTab' = Table
    /\ UNCHANGED <<data, profession, intent>>
    /\ UNCHANGED dashVars

-----------------------------------------------------------------------------
(* The panel under changing props *)

Init ==
    /\ data = NoData
    /\ profession = DefaultProfession
    /\ intent = EmptyText
    /\ normalizedData = <<>>
    /\ candidates = <<>>
    /\ visualizations = <<>>
    /\ kpis = Null
    /\ activeTab = Table
    /\ mounted = FALSE
    /\ InitDash

Tabs == {Table} \cup {Viz(i) : i \in 0..(Len(visualizations) - 1)}

Next ==
    \/ Mount
    \/ \E d \in Datasets : SetData(d)
    \/ \E p \in Professions : SetProfession(p)
    \/ \E text \in Intents : SetIntent(text)
    \/ \E tab \in Tabs : ClickTab(tab)
    \/ Close

Spec == Init /\ [][Next]_vars

-----------------------------------------------------------------------------
(* The first render over a range of datasets *)

\* a row with the keys of f whose value is not undefined
MakeRow(f) == [key \in {x \in DOMAIN f : f[x] # Undef} |-> f[key]]

AliasValues == {Undef, Null} \cup {Num(n) : n \in 1..MaxAlias}

TempKeys == {"TEMP", "temperature_c", "temp", "temperature"}
SalKeys == {"PSAL", "salinity_psu", "psal", "salinity"}
PresKeys == {"PRES", "pressure_dbar", "pres", "pressure"}
TimeKeys == {"TIME", "juld", "time"}

\* rows that vary the keys of one canonical field and carry one other column
AliasRows ==
    {MakeRow(f) @@ [float_id |-> Num(7)] :
        f \in [TempKeys -> AliasValues] \cup [SalKeys -> AliasValues]
               \cup [PresKeys -> AliasValues] \cup [TimeKeys -> AliasValues]}

TempValues == {Null, NaN, Num(0), Num(10), Num(20)}
SalValues == {Null, Num(35)}
TimeValues == {Null, Num(0), Num(3), Iso(19700101), Iso(20230105), Iso(20230220),
               Iso(20231301), Str}

NumberRows == {[TEMP |-> t, PSAL |-> s] : t \in TempValues, s \in SalValues}
TimeRows == {[TIME |-> t] : t \in TimeValues}

\* rows with a temperature and a TIME of several kinds and months
MonthTimes == {Null, Num(0), Iso(20221231), Iso(20230105), Iso(20230120), Iso(20230220), Str}
MonthRows ==
    {[TEMP |-> Num(10), TIME |-> t] : t \in MonthTimes}
    \cup {[TEMP |-> Null, TIME |-> Iso(20230220)]}

\* n rows that carry a temperature_c and a pressure_dbar and nothing else
MaxPipelineRows == 15
PipelineRows(n) == [i \in 1..n |-> [temperature_c |-> Num(i), pressure_dbar |-> Num(10 * i)]]

DataInputs ==
    {Rows(<<r>>) : r \in AliasRows}
    \cup {Rows(rs) : rs \in SeqsUpTo(NumberRows, MaxKpiRows)}
    \cup {Rows(rs) : rs \in SeqsUpTo(TimeRows, MaxKpiRows)}
    \cup {Rows(rs) : rs \in SeqsUpTo(MonthRows, MaxKpiRows)}
    \cup {Rows(PipelineRows(n)) : n \in 1..MaxPipelineRows}

InitData ==
    /\ data \in DataInputs
    /\ profession = DefaultProfession
    /\ intent = EmptyText
    /\ normalizedData = <<>>
    /\ candidates = <<>>
    /\ visualizations = <<>>
    /\ kpis = Null
    /\ activeTab = Table
    /\ mounted = FALSE
    /\ InitDash

NextData == Mount

SpecData == InitData /\ [][NextData]_vars

-----------------------------------------------------------------------------
(* The time-depth heatmap block over datasets around its gate and its cap *)

\* how far the datasets go beyond the cap
MaxOverCap == 2

\* n rows with a TIME, a PRES and a TEMP of their own, row j without TEMP
HeatRows(n, j) ==
    [i \in 1..n |->
        [TEMP |-> IF i = j THEN Null ELSE Num(i % 30), PRES |-> Num(i), TIME |-> Num(i)]]

HeatSizes ==
    (0..(HeatmapMin + 3)) \cup ((HeatmapCap - 1)..(HeatmapCap + MaxOverCap))

HeatInputs == {Rows(HeatRows(n, j)) : n \in HeatSizes, j \in 0..3}

InitHeat ==
    /\ data \in HeatInputs
    /\ profession = DefaultProfession
    /\ intent = EmptyText
    /\ normalizedData = <<>>
    /\ candidates = <<>>
    /\ visualizations = <<>>
    /\ kpis = Null
    /\ activeTab = Table
    /\ mounted = FALSE
    /\ InitDash

\* the normalizer and the heatmap block alone, applied to the dataset
BuildHeatmap ==
    /\ ~mounted
    /\ mounted' = TRUE
    /\ normalizedData' = Normalize(data)
    /\ candidates' = HeatmapChart(Normalize(data))
    /\ UNCHANGED <<data, profession, intent, visualizations, kpis, activeTab>>
    /\ UNCHANGED dashVars

NextHeat == BuildHeatmap

SpecHeatmap == InitHeat /\ [][NextHeat]_vars

-----------------------------------------------------------------------------
(* The Dashboard: values *)

\* the longest chat log that the request handlers are followed to
MaxLog == 5

\* the most requests in flight that a handler adds one to
MaxInFlight == 2

\* the longest chat log and the most tracker sessions that the live tracker
\* is followed to
MaxUpdates == 3
MaxSessions == 2

RECURSIVE TrimStart(_)
TrimStart(s) == IF s # <<>> /\ IsSpace(s[1]) THEN TrimStart(Tail(s)) ELSE s

RECURSIVE TrimEnd(_)
TrimEnd(s) ==
    IF s # <<>> /\ IsSpace(s[Len(s)]) THEN TrimEnd(SubSeq(s, 1, Len(s) - 1)) ELSE s

\* s.trim()
Trim(s) == TrimEnd(TrimStart(s))

\* what the user may type into the chat input
TextBlank == <<" ", " ">>
TextPadded == <<" ","a"," ">>
Texts == {EmptyText, TextBlank, TextPadded}

\* { role, content }; a content is what it says, the user's text if it is
\* one, the chat request or the float it is about, and the cycle it reports
Message(role, say, text, about, value) ==
    [role |-> role,
     content |-> [say |-> say, text |-> text, about |-> about, value |-> value]]

UserMessage(text, n) == Message("user", "text", text, n, Null)
Assistant(say, n) == Message("assistant", say, EmptyText, n, Null)
LiveUpdate(key, cycle) == Message("assistant", "Live update", EmptyText, key, cycle)

\* the chat requests are numbered as they are sent
Requests(log) == {i \in DOMAIN log : log[i].role = "user"}
NextRequest == Cardinality(Requests(messages)) + 1

\* the rows that each source returns
ResultRows(n) == Rows(<<[platform_number |-> Num(n)]>>)
SampleRows == ResultRows(1)
ChatRows == ResultRows(2)
InsightRows == ResultRows(3)
SqlRows == ResultRows(4)

\* a settled call's value: no body at all (null), or a body with its
\* results (missing, empty or rows) and, for a chat reply, a generated query
Reply(body, results, sql) == [body |-> body, results |-> results, sql_query |-> sql]
NoBody == Reply(FALSE, NoData, FALSE)
Results(rows) == {NoData, Rows(<<>>), rows}
SqlReplies(rows) == {NoBody} \cup {Reply(TRUE, r, FALSE) : r \in Results(rows)}
ChatReplies == {NoBody} \cup {Reply(TRUE, r, q) : r \in Results(ChatRows), q \in BOOLEAN}

\* !visualizationData || visualizationData.length === 0
IsEmpty(d) == ~d.isArray \/ Len(d.rows) = 0

\* x && x.length > 0
NonEmpty(d) == d.isArray /\ Len(d.rows) > 0

Calls(op) == {p \in pending : p.op = op}

\* the least number that no call of this kind in flight carries
FreshId(op) ==
    CHOOSE n \in 1..(Cardinality(pending) + 1) :
        /\ \A p \in Calls(op) : p.id # n
        /\ \A m \in 1..(n - 1) : \E p \in Calls(op) : p.id = m

\* the messages that a call in flight may still append, those of the calls
\* and of the auto-load that its handler may start included
Cost(op, dev) ==
    CASE op = "chatQuery" -> IF dev THEN 4 ELSE 1
      [] op = "sql" -> 2
      [] op = "sample" -> 2
      [] op = "runSql" -> 2
      [] op = "analyzeLocation" -> 1
      [] op = "autoLoad" -> 1
      [] OTHER -> 0

RECURSIVE Reserved(_)
ReservedWith(S, p) == Cost(p.op, p.dev) + Reserved(S \ {p})
Reserved(S) == IF S = {} THEN 0 ELSE ReservedWith(S, CHOOSE p \in S : TRUE)

\* the log has room for n more messages and one more request may be in flight
Room(n) ==
    /\ Len(messages) + Reserved(pending) + n <= MaxLog
    /\ Cardinality(pending \ Calls("poll")) < MaxInFlight

-----------------------------------------------------------------------------
(* useApi.execute *)

\* setLoading(true); setError(null); the call starts
Execute(op, of, dev) ==
    /\ loading' = TRUE
    /\ error' = Null
    /\ pending' = pending \cup {Task(op, FreshId(op), of, dev)}

\* try: the call resolved; finally: setLoading(false)
ExecuteResolve ==
    /\ loading' = FALSE
    /\ error' = error

\* catch: setError(err.message), rethrow; finally: setLoading(false)
ExecuteReject ==
    /\ loading' = FALSE
    /\ error' = Str

-----------------------------------------------------------------------------
(* The Dashboard's request handlers *)

\* the auto-load effect: it runs after a render that changed
\* showVisualizations, and starts the sample fetch if the panel is shown and
\* there is no data
AutoLoad(show, d) ==
    IF show /\ show # showVisualizations /\ IsEmpty(d)
    THEN {Task("autoLoad", FreshId("autoLoad"), 0, FALSE)}
    ELSE {}

\* setVisualizationData(d); setShowVisualizations(true), and the effect
Show(p, d) ==
    /\ visualizationData' = d
    /\ showVisualizations' = TRUE
    /\ pending' = (pending \ {p}) \cup AutoLoad(TRUE, d)

\* if (x && x.length > 0) { setVisualizationData(x); setShowVisualizations(true) }
ShowIfAny(p, d, started) ==
    /\ visualizationData' = IF NonEmpty(d) THEN d ELSE visualizationData
    /\ showVisualizations' = (NonEmpty(d) \/ showVisualizations)
    /\ pending' = (pending \ {p}) \cup started
                    \cup AutoLoad(NonEmpty(d) \/ showVisualizations,
                                  IF NonEmpty(d) THEN d ELSE visualizationData)

\* the call is over and its handler only appends a message
Say(p, m) ==
    /\ messages' = Append(messages, m)
    /\ pending' = pending \ {p}
    /\ UNCHANGED <<visualizationData, showVisualizations>>

\* the Show/Hide Visualizations button
ToggleVisualize ==
    /\ IsEmpty(visualizationData) /\ ~showVisualizations => Room(1)
    /\ showVisualizations' = ~showVisualizations
    /\ pending' = pending \cup AutoLoad(~showVisualizations, visualizationData)
    /\ UNCHANGED <<messages, visualizationData, lastUserQuery, developerMode,
                   liveTrackerOn, liveFloats, timer, lastCycles, loading, error>>
    /\ UNCHANGED panelVars

\* the panel's onClose
ClosePanel ==
    /\ showVisualizations
    /\ showVisualizations' = FALSE
    /\ UNCHANGED <<messages, visualizationData, lastUserQuery, developerMode,
                   liveTrackerOn, liveFloats, timer, lastCycles, loading, error,
                   pending>>
    /\ UNCHANGED panelVars

ToggleDeveloperMode ==
    /\ developerMode' = ~developerMode
    /\ UNCHANGED <<messages, showVisualizations, visualizationData, lastUserQuery,
                   liveTrackerOn, liveFloats, timer, lastCycles, loading, error,
                   pending>>
    /\ UNCHANGED panelVars

\* the sample fetch of the auto-load effect resolved
AutoLoadResolve(p, res) ==
    /\ p.op = "autoLoad"
    /\ pending' = pending \ {p}
    /\ IF res.body /\ NonEmpty(res.results)
       THEN /\ visualizationData' = res.results
            /\ messages' = Append(messages, Assistant("Loaded", 0))
       ELSE UNCHANGED <<visualizationData, messages>>
    /\ UNCHANGED <<showVisualizations, lastUserQuery, developerMode,
                   liveTrackerOn, liveFloats, timer, lastCycles, loading, error>>
    /\ UNCHANGED panelVars

AutoLoadReject(p) ==
    /\ p.op = "autoLoad"
    /\ Say(p, Assistant("Failed to load sample", 0))
    /\ UNCHANGED <<lastUserQuery, developerMode,
                   liveTrackerOn, liveFloats, timer, lastCycles, loading, error>>
    /\ UNCHANGED panelVars

\* ChatInput.handleSubmit, handleSendMessage and askGeneral up to its await
SendMessage(text) ==
    /\ Trim(text) # <<>>
    /\ Room(1 + Cost("chatQuery", developerMode))
    /\ messages' = Append(messages, UserMessage(text, NextRequest))
    /\ lastUserQuery' = text
    /\ Execute("chatQuery", NextRequest, developerMode)
    /\ UNCHANGED <<showVisualizations, visualizationData, developerMode,
                   liveTrackerOn, liveFloats, timer, lastCycles>>
    /\ UNCHANGED panelVars

\* the generated query is shown and run if the caller was in developer mode
RunsGenerated(p, reply) == p.dev /\ reply.sql_query

\* askGeneral after chatQuery resolved
ChatResolve(p, reply) ==
    /\ p.op = "chatQuery"
    /\ ExecuteResolve
    /\ IF reply.body
       THEN /\ messages' =
                   Append(messages, Assistant("response", p.of))
                   \o (IF RunsGenerated(p, reply)
                       THEN <<Assistant("Generated SQL Query", p.of)>>
                       ELSE <<>>)
            /\ ShowIfAny(p, reply.results,
                         IF RunsGenerated(p, reply)
                         THEN {Task("sql", p.id, p.of, TRUE)}
                         ELSE {})
       ELSE Say(p, Assistant("Query request failed", p.of))
    /\ UNCHANGED <<lastUserQuery, developerMode,
                   liveTrackerOn, liveFloats, timer, lastCycles>>
    /\ UNCHANGED panelVars

\* askGeneral after chatQuery rejected, its catch saying nothing
ChatRejectSilent(p) ==
    /\ p.op = "chatQuery"
    /\ ExecuteReject
    /\ pending' = pending \ {p}
    /\ UNCHANGED <<messages, visualizationData, showVisualizations>>
    /\ UNCHANGED <<lastUserQuery, developerMode,
                   liveTrackerOn, liveFloats, timer, lastCycles>>
    /\ UNCHANGED panelVars

\* askGeneral after chatQuery rejected
ChatReject(p) ==
    /\ p.op = "chatQuery"
    /\ ExecuteReject
    /\ Say(p, Assistant("Query request failed", p.of))
    /\ UNCHANGED <<lastUserQuery, developerMode,
                   liveTrackerOn, liveFloats, timer, lastCycles>>
    /\ UNCHANGED panelVars

\* askGeneral after the generated query resolved
SqlResolve(p, res) ==
    /\ p.op = "sql"
    /\ IF res.body
       THEN /\ Show(p, res.results)
            /\ messages' = Append(messages, Assistant("SQL returned", p.of))
       ELSE Say(p, Assistant("SQL execution error", p.of))
    /\ UNCHANGED <<lastUserQuery, developerMode,
                   liveTrackerOn, liveFloats, timer, lastCycles, loading, error>>
    /\ UNCHANGED panelVars

SqlReject(p) ==
    /\ p.op = "sql"
    /\ Say(p, Assistant("SQL execution error", p.of))
    /\ UNCHANGED <<lastUserQuery, developerMode,
                   liveTrackerOn, liveFloats, timer, lastCycles, loading, error>>
    /\ UNCHANGED panelVars

\* the Fetch Insights button, disabled while loading, and analyzeAt up to
\* its await
FetchInsights ==
    /\ ~loading
    /\ Room(Cost("analyzeLocation", FALSE))
    /\ Execute("analyzeLocation", 0, FALSE)
    /\ UNCHANGED <<messages, showVisualizations, visualizationData, lastUserQuery,
                   developerMode, liveTrackerOn, liveFloats, timer, lastCycles>>
    /\ UNCHANGED panelVars

InsightsResolve(p, reply) ==
    /\ p.op = "analyzeLocation"
    /\ ExecuteResolve
    /\ IF reply.body
       THEN /\ messages' = Append(messages, Assistant("insights", 0))
            /\ ShowIfAny(p, reply.results, {})
       ELSE Say(p, Assistant("Failed to analyze location", 0))
    /\ UNCHANGED <<lastUserQuery, developerMode,
                   liveTrackerOn, liveFloats, timer, lastCycles>>
    /\ UNCHANGED panelVars

InsightsReject(p) ==
    /\ p.op = "analyzeLocation"
    /\ ExecuteReject
    /\ Say(p, Assistant("Failed to analyze location", 0))
    /\ UNCHANGED <<lastUserQuery, developerMode,
                   liveTrackerOn, liveFloats, timer, lastCycles>>
    /\ UNCHANGED panelVars

\* the Load Sample Data button up to its await
LoadSample ==
    /\ Room(Cost("sample", FALSE))
    /\ pending' = pending \cup {Task("sample", FreshId("sample"), 0, FALSE)}
    /\ UNCHANGED <<messages, showVisualizations, visualizationData, lastUserQuery,
                   developerMode, liveTrackerOn, liveFloats, timer, lastCycles,
                   loading, error>>
    /\ UNCHANGED panelVars

LoadSampleResolve(p, res) ==
    /\ p.op = "sample"
    /\ IF res.body
       THEN /\ Show(p, res.results)
            /\ messages' = Append(messages, Assistant("Loaded", 0))
       ELSE Say(p, Assistant("Failed to load sample", 0))
    /\ UNCHANGED <<lastUserQuery, developerMode,
                   liveTrackerOn, liveFloats, timer, lastCycles, loading, error>>
    /\ UNCHANGED panelVars

LoadSampleReject(p) ==
    /\ p.op = "sample"
    /\ Say(p, Assistant("Failed to load sample", 0))
    /\ UNCHANGED <<lastUserQuery, developerMode,
                   liveTrackerOn, liveFloats, timer, lastCycles, loading, error>>
    /\ UNCHANGED panelVars

\* the Run SQL button, rendered in developer mode only, up to its await
RunSql ==
    /\ developerMode
    /\ Room(Cost("runSql", FALSE))
    /\ pending' = pending \cup {Task("runSql", FreshId("runSql"), 0, FALSE)}
    /\ UNCHANGED <<messages, showVisualizations, visualizationData, lastUserQuery,
                   developerMode, liveTrackerOn, liveFloats, timer, lastCycles,
                   loading, error>>
    /\ UNCHANGED panelVars

RunSqlResolve(p, res) ==
    /\ p.op = "runSql"
    /\ IF res.body
       THEN /\ Show(p, res.results)
            /\ messages' = Append(messages, Assistant("SQL returned", 0))
       ELSE Say(p, Assistant("SQL error", 0))
    /\ UNCHANGED <<lastUserQuery, developerMode,
                   liveTrackerOn, liveFloats, timer, lastCycles, loading, error>>
    /\ UNCHANGED panelVars

RunSqlReject(p) ==
    /\ p.op = "runSql"
    /\ Say(p, Assistant("SQL error", 0))
    /\ UNCHANGED <<lastUserQuery, developerMode,
                   liveTrackerOn, liveFloats, timer, lastCycles, loading, error>>
    /\ UNCHANGED panelVars

\* the Set on Map button with coordinates out of range
RejectCoordinates ==
    /\ Room(1)
    /\ messages' = Append(messages, Assistant("Please enter valid coordinates", 0))
    /\ UNCHANGED <<showVisualizations, visualizationData, lastUserQuery,
                   developerMode, liveTrackerOn, liveFloats, timer, lastCycles,
                   loading, error, pending>>
    /\ UNCHANGED panelVars

InitDashboard ==
    /\ data = NoData
    /\ profession = DefaultProfession
    /\ intent = EmptyText
    /\ normalizedData = <<>>
    /\ candidates = <<>>
    /\ visualizations = <<>>
    /\ kpis = Null
    /\ activeTab = Table
    /\ mounted = FALSE
    /\ InitDash

NextRequests ==
    \/ ToggleVisualize
    \/ ClosePanel
    \/ ToggleDeveloperMode
    \/ \E text \in Texts : SendMessage(text)
    \/ FetchInsights
    \/ LoadSample
    \/ RunSql
    \/ RejectCoordinates
    \/ \E p \in pending : \E res \in SqlReplies(SampleRows) : AutoLoadResolve(p, res)
    \/ \E p \in pending : AutoLoadReject(p)
    \/ \E p \in pending : \E reply \in ChatReplies : ChatResolve(p, reply)
    \/ \E p \in pending : ChatReject(p)
    \/ \E p \in pending : \E res \in SqlReplies(SqlRows) : SqlResolve(p, res)
    \/ \E p \in pending : SqlReject(p)
    \/ \E p \in pending : \E reply \in SqlReplies(InsightRows) : InsightsResolve(p, reply)
    \/ \E p \in pending : InsightsReject(p)
    \/ \E p \in pending : \E res \in SqlReplies(SampleRows) : LoadSampleResolve(p, res)
    \/ \E p \in pending : LoadSampleReject(p)
    \/ \E p \in pending : \E res \in SqlReplies(SqlRows) : RunSqlResolve(p, res)
    \/ \E p \in pending : RunSqlReject(p)

SpecRequests == InitDashboard /\ [][NextRequests]_vars

-----------------------------------------------------------------------------
(* The Dashboard's live float tracker *)

\* the cycles that a poll may report
Cycles == {Num(1), Num(2)}

Sighting(f, c) == [platform_number |-> f, cycle_number |-> c]

\* DISTINCT ON (platform_number) ... ORDER BY platform_number
Ascending(F) ==
    CHOOSE s \in [1..Cardinality(F) -> F] : \A i, j \in 1..Cardinality(F) : i < j => s[i] < s[j]

Sightings(order, cycle) == [i \in DOMAIN order |-> Sighting(order[i], cycle[order[i]])]

PollResults ==
    UNION {{Sightings(Ascending(F), cycle) : cycle \in [F -> Cycles]} : F \in SUBSET Floats}

PollReplies ==
    {NoBody, Reply(TRUE, NoData, FALSE)} \cup {Reply(TRUE, Rows(rs), FALSE) : rs \in PollResults}

\* res.results || []
RowsIn(res) == IF res.results.isArray THEN res.results.rows ELSE <<>>

\* the body of rows.forEach: st holds the session's lastCycles and the
\* messages appended so far
TrackRow(st, r) ==
    IF st.cycles[r.platform_number] = Undef
    THEN [st EXCEPT !.cycles[r.platform_number] = r.cycle_number]
    ELSE IF r.cycle_number # st.cycles[r.platform_number]
         THEN [cycles |-> [st.cycles EXCEPT ![r.platform_number] = r.cycle_number],
               said |-> Append(st.said, LiveUpdate(r.platform_number, r.cycle_number))]
         ELSE st

RECURSIVE TrackRows(_, _, _)
TrackRows(st, rows, i) ==
    IF i > Len(rows) THEN st ELSE TrackRows(TrackRow(st, rows[i]), rows, i + 1)

\* the log has room for the updates of one more poll
PollRoom ==
    Len(messages) + Cardinality(Floats) * (Cardinality(Calls("poll")) + 1) <= MaxUpdates

\* fetchLatestFloats up to its await, in the session whose closure calls it
StartPoll(session) == pending' = pending \cup {Task("poll", FreshId("poll"), session, FALSE)}

\* the Live Tracker button, the cleanup of the effect's last run and its
\* next run, which never clears the timer it finds
ToggleTrackerLeak ==
    /\ liveTrackerOn' = ~liveTrackerOn
    /\ IF ~liveTrackerOn
       THEN /\ Len(lastCycles) < MaxSessions
            /\ PollRoom
            /\ lastCycles' = Append(lastCycles, NoCycles)
            /\ timer' = Len(lastCycles) + 1
            /\ StartPoll(Len(lastCycles) + 1)
       ELSE UNCHANGED <<timer, lastCycles, pending>>
    /\ UNCHANGED <<messages, showVisualizations, visualizationData, lastUserQuery,
                   developerMode, liveFloats, loading, error>>
    /\ UNCHANGED panelVars

\* the Live Tracker button, the cleanup of the effect's last run
\* (clearInterval) and its next run: a new Map, and with the tracker on a
\* first poll and a new interval timer
ToggleTracker ==
    /\ liveTrackerOn' = ~liveTrackerOn
    /\ IF ~liveTrackerOn
       THEN /\ Len(lastCycles) < MaxSessions
            /\ PollRoom
            /\ lastCycles' = Append(lastCycles, NoCycles)
            /\ timer' = Len(lastCycles) + 1
            /\ StartPoll(Len(lastCycles) + 1)
       ELSE /\ timer' = 0
            /\ UNCHANGED <<lastCycles, pending>>
    /\ UNCHANGED <<messages, showVisualizations, visualizationData, lastUserQuery,
                   developerMode, liveFloats, loading, error>>
    /\ UNCHANGED panelVars

\* the interval timer fires
Tick ==
    /\ timer # 0
    /\ PollRoom
    /\ StartPoll(timer)
    /\ UNCHANGED <<messages, showVisualizations, visualizationData, lastUserQuery,
                   developerMode, liveTrackerOn, liveFloats, timer, lastCycles,
                   loading, error>>
    /\ UNCHANGED panelVars

\* fetchLatestFloats after its query resolved; a reply without a body
\* throws, and the catch ignores it
PollResolve(p, res) ==
    /\ p.op = "poll"
    /\ pending' = pending \ {p}
    /\ IF res.body
       THEN \E st \in {TrackRows([cycles |-> lastCycles[p.of], said |-> <<>>], RowsIn(res), 1)} :
                /\ lastCycles' = [lastCycles EXCEPT ![p.of] = st.cycles]
                /\ messages' = messages \o st.said
                /\ liveFloats' = RowsIn(res)
       ELSE UNCHANGED <<lastCycles, messages, liveFloats>>
    /\ UNCHANGED <<showVisualizations, visualizationData, lastUserQuery,
                   developerMode, liveTrackerOn, timer, loading, error>>
    /\ UNCHANGED panelVars

\* fetchLatestFloats after its query rejected: the catch ignores it
PollReject(p) ==
    /\ p.op = "poll"
    /\ pending' = pending \ {p}
    /\ UNCHANGED <<messages, showVisualizations, visualizationData, lastUserQuery,
                   developerMode, liveTrackerOn, liveFloats, timer, lastCycles,
                   loading, error>>
    /\ UNCHANGED panelVars

NextTracker ==
    \/ ToggleTracker
    \/ Tick
    \/ \E p \in pending : \E res \in PollReplies : PollResolve(p, res)
    \/ \E p \in pending : PollReject(p)

SpecTracker == InitDashboard /\ [][NextTracker]_vars

-----------------------------------------------------------------------------
(* The chat: handleSendMessage and askGeneral, whose calls settle *)

\* the call of chat request n settles
SettleChat(n) ==
    \E p \in pending :
        /\ p.of = n
        /\ \/ \E reply \in ChatReplies : ChatResolve(p, reply)
           \/ ChatReject(p)

NextChat ==
    \/ ToggleDeveloperMode
    \/ \E text \in Texts : SendMessage(text)
    \/ \E p \in pending : \E reply \in ChatReplies : ChatResolve(p, reply)
    \/ \E p \in pending : ChatReject(p)
    \/ \E p \in pending : \E res \in SqlReplies(SqlRows) : SqlResolve(p, res)
    \/ \E p \in pending : SqlReject(p)
    \/ \E p \in pending : \E res \in SqlReplies(SampleRows) : AutoLoadResolve(p, res)
    \/ \E p \in pending : AutoLoadReject(p)
    \/ RejectCoordinates

SpecChat ==
    /\ InitDashboard
    /\ [][NextChat]_vars
    /\ \A n \in 1..MaxLog : WF_vars(SettleChat(n))

-----------------------------------------------------------------------------
(* Properties *)

\* the lower-cased intent, as both the generator and the ranker read it
Query == ToLowerCase(intent)

LowerTitle(v) == ToLowerCase(v.title)

Occurrences(s, v) == Cardinality({i \in 1..Len(s) : s[i] = v})

Position(s, v) == CHOOSE n \in 1..Len(s) : s[n] = v

HistogramCandidate == \E i \in 1..Len(candidates) : candidates[i].type = "histogram"

\* the narrowing to histograms takes place
FilterFires == Len(intent) > 0 /\ wantsHistogram(Query) /\ HistogramCandidate

\* C1: when the intent matches the histogram pattern and the candidate list
\* holds at least one histogram, every chart of the ranked list is a histogram.
HistogramOverride ==
    (mounted /\ wantsHistogram(Query) /\ HistogramCandidate)
        => \A i \in 1..Len(visualizations) : visualizations[i].type = "histogram"

\* a histogram intent over candidates of both kinds, narrowed to the histograms
HistogramOverrideWitness ==
    /\ mounted
    /\ wantsHistogram(Query)
    /\ HistogramCandidate
    /\ \E i \in 1..Len(candidates) : candidates[i].type # "histogram"
    /\ Len(visualizations) > 0
    /\ Len(visualizations) < Len(candidates)
    /\ \A i \in 1..Len(visualizations) : visualizations[i].type = "histogram"

\* C2: a ranked chart gets the +3 pressure bonus exactly when its title
\* mentions "pressure" and the intent matches the profile pattern.
PressureBonusIffProfile ==
    (mounted /\ Len(intent) > 0)
        => \A i \in 1..Len(visualizations) :
              (PressureBonus(LowerTitle(visualizations[i]), Query) = 3)
                  <=> (/\ Contains(LowerTitle(visualizations[i]),
                                   <<"p","r","e","s","s","u","r","e">>)
                       /\ wantsProfile(Query))

KnownPersonas ==
    {ToLowerCase(DefaultProfession), ToLowerCase(Fisherman),
     ToLowerCase(Policymaker), ToLowerCase(Student)}

\* C3: a persona that is none of the four known ones, in any letter case,
\* yields the candidate charts of Researcher.
PersonaFallback ==
    (mounted /\ hasData(data) /\ ToLowerCase(profession) \notin KnownPersonas)
        => candidates = createVisualizations(normalizedData, DefaultProfession, intent)

\* C4: the ranked list is in order of non-increasing score, and charts of equal
\* score keep the relative order they have in the candidate list.
StableRanking ==
    mounted =>
        \A i, j \in 1..Len(visualizations) :
            i < j =>
                /\ Score(visualizations[i], Query) >= Score(visualizations[j], Query)
                /\ (Score(visualizations[i], Query) = Score(visualizations[j], Query)
                        => Position(candidates, visualizations[i])
                               < Position(candidates, visualizations[j]))

\* the sort moved a chart forward while two others tie
StableRankingWitness ==
    /\ mounted
    /\ Len(visualizations) = Len(candidates)
    /\ visualizations # candidates
    /\ \E i, j \in 1..Len(visualizations) :
          /\ i < j
          /\ Score(visualizations[i], Query) = Score(visualizations[j], Query)
    /\ \E i, j \in 1..Len(visualizations) :
          Score(visualizations[i], Query) > Score(visualizations[j], Query)

CanonicalKeys == {"TEMP", "PSAL", "PRES", "TIME"}

AliasOrder ==
    [TEMP |-> <<"temperature_c", "temp", "temperature">>,
     PSAL |-> <<"salinity_psu", "psal", "salinity">>,
     PRES |-> <<"pressure_dbar", "pres", "pressure">>,
     TIME |-> <<"juld", "time">>]

\* the value the canonical key c of a raw row resolves to
Resolved(row, c) ==
    IF c \in DOMAIN row THEN row[c]
    ELSE LET defined == {n \in 1..Len(AliasOrder[c]) :
                            /\ AliasOrder[c][n] \in DOMAIN row
                            /\ row[AliasOrder[c][n]] # Null}
         IN  IF defined = {} THEN Null
             ELSE row[AliasOrder[c][CHOOSE n \in defined : \A m \in defined : n <= m]]

\* C5: each canonical field of a normalized row keeps the raw row's own value
\* when the raw row has the key, else takes the first alias in the fixed order
\* that has a defined value, else is null; the key is never missing.
CanonicalResolution ==
    (mounted /\ hasData(data)) =>
        /\ Len(normalizedData) = Len(data.rows)
        /\ \A i \in 1..Len(normalizedData) : \A c \in CanonicalKeys :
              /\ c \in DOMAIN normalizedData[i]
              /\ normalizedData[i][c] = Resolved(data.rows[i], c)

\* a row without TEMP and temperature_c whose temp and temperature differ
CanonicalResolutionWitness ==
    /\ mounted
    /\ hasData(data)
    /\ \E i \in 1..Len(data.rows) :
          LET row == data.rows[i]
          IN  /\ {"temp", "temperature"} \subseteq DOMAIN row
              /\ "TEMP" \notin DOMAIN row
              /\ "temperature_c" \notin DOMAIN row
              /\ row["temp"] # Null
              /\ row["temperature"] # Null
              /\ row["temp"] # row["temperature"]
              /\ normalizedData[i]["TEMP"] = row["temp"]

\* C6: normalizing the normalized rows once more changes nothing.
NormalizeIdempotent ==
    (mounted /\ hasData(data)) => Normalize(Rows(normalizedData)) = normalizedData

\* a row whose TEMP was filled in from an alias
NormalizeIdempotentWitness ==
    /\ mounted
    /\ hasData(data)
    /\ "TEMP" \notin DOMAIN data.rows[1]
    /\ normalizedData[1]["TEMP"] # Null
    /\ Normalize(Rows(normalizedData)) = normalizedData

\* C7: every ranked chart is a candidate, none occurs more often than among the
\* candidates, and unless the narrowing to histograms takes place the ranked
\* list is a permutation of the candidate list.
RankPreservesContent ==
    mounted =>
        /\ \A i \in 1..Len(visualizations) :
              /\ visualizations[i] \in Range(candidates)
              /\ Occurrences(visualizations, visualizations[i])
                    <= Occurrences(candidates, visualizations[i])
        /\ ~FilterFires =>
              /\ Len(visualizations) = Len(candidates)
              /\ \A i \in 1..Len(candidates) :
                    Occurrences(visualizations, candidates[i])
                        = Occurrences(candidates, candidates[i])

\* charts of both kinds reordered under an intent that asks for no histogram
RankPreservesContentWitness ==
    /\ mounted
    /\ Len(intent) > 0
    /\ ~wantsHistogram(Query)
    /\ HistogramCandidate
    /\ \E i \in 1..Len(candidates) : candidates[i].type # "histogram"
    /\ visualizations # candidates
    /\ Len(visualizations) = Len(candidates)

RECURSIVE Total(_)
Total(s) == IF Len(s) = 0 THEN 0 ELSE Head(s).v + Total(Tail(s))

\* the values of a field that are neither null nor NaN
Qualifying(field(_)) ==
    SelectSeq(Map(normalizedData, field), LAMBDA x : x # Null /\ x # NaN)

\* avg is the arithmetic mean of the values, null when there are none
IsMean(avg, values) ==
    IF Len(values) = 0 THEN avg = Null
    ELSE /\ avg.k = "num"
         /\ avg.d > 0
         /\ avg.v * Len(values) = Total(values) * avg.d

\* C8: avgTemp and avgSal are the arithmetic means of TEMP and PSAL over the
\* rows where the field is neither null nor NaN, and null when no row qualifies.
KpiAverages ==
    (mounted /\ hasData(data)) =>
        /\ IsMean(kpis.avgTemp, Qualifying(TEMP))
        /\ IsMean(kpis.avgSal, Qualifying(PSAL))

\* TEMP 10, 20, null gives the average 15
KpiAveragesWitness ==
    /\ mounted
    /\ Len(normalizedData) = 3
    /\ Map(normalizedData, TEMP) = <<Num(10), Num(20), Null>>
    /\ kpis.avgTemp = Num(15)

\* the time values of the rows whose TIME is not null and parses
ParsedTimes ==
    {GetTime(NewDate(TIME(normalizedData[i]))).v :
        i \in {n \in 1..Len(normalizedData) :
                  /\ TIME(normalizedData[n]) # Null
                  /\ GetTime(NewDate(TIME(normalizedData[n]))) # NaN}}

\* C9: the time span runs from the least to the greatest of the parsed
\* timestamps, the epoch origin included, and is null only when none parses.
TimeSpanOfAllParsed ==
    (mounted /\ hasData(data)) =>
        IF ParsedTimes = {}
        THEN kpis.minTime = Null /\ kpis.maxTime = Null
        ELSE /\ kpis.minTime = DateOf(CHOOSE t \in ParsedTimes : \A u \in ParsedTimes : t <= u)
             /\ kpis.maxTime = DateOf(CHOOSE t \in ParsedTimes : \A u \in ParsedTimes : t >= u)

Parses(d) == TIME(d) # Null /\ GetTime(NewDate(TIME(d))) # NaN

ParsedRows == {i \in 1..Len(normalizedData) : Parses(normalizedData[i])}

\* the candidate charts with the title t
Titled(t) == SelectSeq(candidates, LAMBDA v : v.title = t)

\* every trace of the chart has one x per row that parses, none of them invalid
PointsParse(v) ==
    \A k \in 1..Len(v.data) :
        /\ Len(v.data[k].x) = Cardinality(ParsedRows)
        /\ \A n \in 1..Len(v.data[k].x) : v.data[k].x[n] # InvalidDate

\* C11: a row whose TIME is not null but does not parse gives no point to the
\* temperature-over-time chart or to the time-depth heatmap and no value to
\* the time span, which is never an invalid date.
UnparsableTimeExcluded ==
    (mounted /\ hasData(data)) =>
        /\ \A i \in 1..Len(candidates) :
              candidates[i].title \in {TitleTempTime, TitleHeatmap}
                  => PointsParse(candidates[i])
        /\ kpis.minTime # InvalidDate
        /\ kpis.maxTime # InvalidDate

\* the rows whose TEMP and PSAL are both not null
TSCount == Cardinality({i \in 1..Len(normalizedData) :
                          /\ TEMP(normalizedData[i]) # Null
                          /\ PSAL(normalizedData[i]) # Null})

\* the chart is a scatter of one trace with n points
ScatterOf(v, n) ==
    /\ v.type = "scatter"
    /\ Len(v.data) = 1
    /\ Len(v.data[1].x) = n
    /\ Len(v.data[1].y) = n

\* C12: whatever the persona and the intent, the candidates hold exactly one
\* T-S diagram, with one point per row whose TEMP and PSAL are both not null,
\* when there are more than 20 such rows, and none when there are 20 or fewer.
TSGating ==
    mounted =>
        IF TSCount > 20
        THEN Len(Titled(TitleTS)) = 1 /\ ScatterOf(Titled(TitleTS)[1], TSCount)
        ELSE Len(Titled(TitleTS)) = 0

\* 22 rows of which 21 have both values, under a persona other than Researcher
TSGatingWitness ==
    /\ mounted
    /\ profession = Student
    /\ Len(normalizedData) = 22
    /\ TSCount = 21
    /\ Len(Titled(TitleTS)) = 1
    /\ Len(Titled(TitleTS)[1].data[1].x) = 21

\* the rows that have a month: TIME and TEMP not null, TIME a timestamp
DatedRows ==
    {i \in 1..Len(normalizedData) :
        TEMP(normalizedData[i]) # Null /\ Parses(normalizedData[i])}

\* the UTC year-month key of row i
KeyOfRow(i) == MonthKey(NewDate(TIME(normalizedData[i])))

MonthKeys == {KeyOfRow(i) : i \in DatedRows}

\* one box series per month key, in ascending order of the keys, each holding
\* one value per row of its month
BoxSeries(v) ==
    /\ v.type = "box"
    /\ Len(v.data) = Cardinality(MonthKeys)
    /\ \A k \in 1..Len(v.data) :
          /\ v.data[k].name \in MonthKeys
          /\ Len(v.data[k].y)
                = Cardinality({i \in DatedRows : KeyOfRow(i) = v.data[k].name})
          /\ k < Len(v.data) => StringLess(v.data[k].name, v.data[k + 1].name)

\* C13: the rows with TIME and TEMP not null are grouped by UTC year-month
\* key; the monthly box plot is a candidate exactly when there are at least 2
\* distinct keys, with one series per key in ascending key order.
MonthBuckets ==
    (mounted /\ hasData(data)) =>
        IF Cardinality(MonthKeys) >= 2
        THEN Len(Titled(TitleMonthly)) = 1 /\ BoxSeries(Titled(TitleMonthly)[1])
        ELSE Len(Titled(TitleMonthly)) = 0

\* the row's pressure is missing (null once normalized) or at most 10
NearSurface(d) == PRES(d) = Null \/ (PRES(d).k = "num" /\ PRES(d).v <= 10)

NearSurfaceTemps ==
    Map(SelectSeq(normalizedData, LAMBDA d : NearSurface(d) /\ TEMP(d) # Null), TEMP)
NearSurfaceSals ==
    Map(SelectSeq(normalizedData, LAMBDA d : NearSurface(d) /\ PSAL(d) # Null), PSAL)

\* every candidate with the title t is a histogram of exactly the values xs
HistogramsOf(t, xs) ==
    \A i \in 1..Len(candidates) :
        candidates[i].title = t
            => /\ candidates[i].type = "histogram"
               /\ Len(candidates[i].data) = 1
               /\ candidates[i].data[1].x = xs

\* C14: every near-surface histogram, of Fisherman or of the histogram intent,
\* holds the plotted value of each row whose pressure is missing, null or at
\* most 10 and of no row whose pressure is above 10; Fisherman has the
\* histogram of a quantity exactly when some such row has the quantity.
SurfaceInclusion ==
    (mounted /\ hasData(data)) =>
        /\ HistogramsOf(TitleSurfTemp, NearSurfaceTemps)
        /\ HistogramsOf(TitleSurfSal, NearSurfaceSals)
        /\ Prof(profession) = ToLowerCase(Fisherman) =>
              /\ Len(Titled(TitleSurfTemp)) = (IF Len(NearSurfaceTemps) > 0 THEN 1 ELSE 0)
              /\ Len(Titled(TitleSurfSal)) = (IF Len(NearSurfaceSals) > 0 THEN 1 ELSE 0)

\* Fisherman over a row without any pressure key and a row at 50 dbar: the
\* histogram holds the temperature of the first row only
SurfaceInclusionWitness ==
    /\ mounted
    /\ profession = Fisherman
    /\ Len(data.rows) = 2
    /\ DOMAIN data.rows[1] \cap PresKeys = {}
    /\ PRES(normalizedData[2]) = Num(50)
    /\ TEMP(normalizedData[2]) # Null
    /\ Len(Titled(TitleSurfTemp)) = 1
    /\ Titled(TitleSurfTemp)[1].data[1].x = <<TEMP(normalizedData[1])>>

\* every row carries a number as temperature_c, a number as pressure_dbar and
\* nothing else
PipelineData ==
    /\ hasData(data)
    /\ \A i \in 1..Len(data.rows) :
          /\ DOMAIN data.rows[i] = {"temperature_c", "pressure_dbar"}
          /\ data.rows[i]["temperature_c"].k = "num"
          /\ data.rows[i]["pressure_dbar"].k = "num"

\* C15: for Researcher, an empty intent and N >= 1 rows that carry only
\* temperature_c and pressure_dbar, TEMP and PRES of every normalized row are
\* the two aliases; the only candidate is the scatter "Temperature vs Pressure
\* Profile" with N points; the ranked list is the candidate list; the summary
\* counts N records, averages the N temperatures and has a null salinity
\* average and a null time span.
EndToEnd ==
    (mounted /\ PipelineData /\ profession = DefaultProfession /\ intent = EmptyText) =>
        /\ Len(normalizedData) = Len(data.rows)
        /\ \A i \in 1..Len(data.rows) :
              /\ TEMP(normalizedData[i]) = data.rows[i]["temperature_c"]
              /\ PRES(normalizedData[i]) = data.rows[i]["pressure_dbar"]
        /\ Len(candidates) = 1
        /\ candidates[1].title = TitleTempPres
        /\ ScatterOf(candidates[1], Len(data.rows))
        /\ visualizations = candidates
        /\ kpis.numRecords = Len(data.rows)
        /\ IsMean(kpis.avgTemp, Map(normalizedData, TEMP))
        /\ kpis.avgSal = Null
        /\ kpis.minTime = Null
        /\ kpis.maxTime = Null

\* 15 rows with the temperatures 1 to 15: one chart of 15 points, average 8
EndToEndWitness ==
    /\ mounted
    /\ PipelineData
    /\ Len(data.rows) = 15
    /\ Len(candidates) = 1
    /\ Len(candidates[1].data[1].x) = 15
    /\ visualizations = candidates
    /\ kpis.numRecords = 15
    /\ kpis.avgTemp = Num(8)

\* the title mentions "surface" or "distribution"
SurfaceTitle(title) ==
    \/ Contains(title, <<"s","u","r","f","a","c","e">>)
    \/ Contains(title, <<"d","i","s","t","r","i","b","u","t","i","o","n">>)

\* C16: a ranked chart gets the +2 surface bonus exactly when its title
\* mentions "surface" or "distribution" and the intent sets wantsSurface, the
\* flag that "surface", "shallow" or a 0-10 dbar band sets.
SurfaceBonusIffWantsSurface ==
    (mounted /\ Len(intent) > 0) =>
        \A i \in 1..Len(visualizations) :
            (SurfaceBonus(LowerTitle(visualizations[i]), Query) = 2)
                <=> (SurfaceTitle(LowerTitle(visualizations[i])) /\ wantsSurface(Query))

\* C17: the normalized rows are as many as the raw rows and in their order;
\* row i has the keys of raw row i and the four canonical keys, and every key
\* of the raw row that is not canonical keeps its value; the raw rows are
\* those that were passed in.
NormalizeFrame ==
    (mounted /\ hasData(data)) =>
        /\ Len(normalizedData) = Len(data.rows)
        /\ \A i \in 1..Len(data.rows) :
              /\ DOMAIN normalizedData[i] = DOMAIN data.rows[i] \cup CanonicalKeys
              /\ \A key \in DOMAIN data.rows[i] \ CanonicalKeys :
                    normalizedData[i][key] = data.rows[i][key]
        /\ data \in DataInputs

\* a row with an alias of the temperature and a column that is no alias, and
\* none of the keys of salinity, pressure and time
NormalizeFrameWitness ==
    /\ mounted
    /\ hasData(data)
    /\ DOMAIN data.rows[1] = {"temp", "float_id"}
    /\ normalizedData[1]["float_id"] = Num(7)
    /\ normalizedData[1]["temp"] = data.rows[1]["temp"]
    /\ TEMP(normalizedData[1]) = data.rows[1]["temp"]
    /\ PSAL(normalizedData[1]) = Null

\* the values of a field that are not null
NonNull(field(_)) == SelectSeq(Map(normalizedData, field), LAMBDA x : x # Null)

\* bar is the sum of the values over max(1, their number): 0 without values
IsBarMean(bar, values) ==
    IF Len(values) = 0 THEN bar = Num(0)
    ELSE /\ bar.k = "num"
         /\ bar.d > 0
         /\ bar.v * Len(values) = Total(values) * bar.d

\* the chart has one trace of three bars: the count and the two means
SummaryBars(v) ==
    /\ Len(v.data) = 1
    /\ Len(v.data[1].y) = 3
    /\ v.data[1].y[1] = Num(Len(normalizedData))
    /\ IsBarMean(v.data[1].y[2], NonNull(TEMP))
    /\ IsBarMean(v.data[1].y[3], NonNull(PSAL))

BarCharts == SelectSeq(candidates, LAMBDA v : v.type = "bar")

ChosenSubset(surface, all, surfaceTitle, allTitle) ==
    IF Len(surface) > 10 THEN {[title |-> surfaceTitle, x |-> surface]}
    ELSE IF Len(all) > 0 THEN {[title |-> allTitle, x |-> all]}
    ELSE {}

\* the persona block of the profession, and whether it holds a histogram
PersonaBlock == PersonaCharts(normalizedData, Prof(profession))
PersonaHistogram == \E i \in 1..Len(PersonaBlock) : IsHistogram(PersonaBlock[i])

\* the histograms among the candidates, each as its title and its values
CandidateHistograms ==
    {[title |-> candidates[i].title, x |-> candidates[i].data[1].x] :
        i \in {n \in 1..Len(candidates) : candidates[n].type = "histogram"}}

\* C19: under a histogram intent, and the persona having no histogram of its
\* own, the histogram of each quantity is built from the near-surface rows
\* (pressure at most 10, quantity not null) and carries the "Surface ...
\* (0-10 dbar)" title when these rows are more than 10, and is built from all
\* the rows with the quantity and carries the "... Distribution" title
\* otherwise, exactly 10 near-surface rows included.
HistogramSubset ==
    (mounted /\ hasData(data) /\ wantsHistogram(Query) /\ ~PersonaHistogram) =>
        CandidateHistograms
            = ChosenSubset(NearSurfaceTemps, NonNull(TEMP), TitleSurfTemp, TitleTempDist)
              \cup ChosenSubset(NearSurfaceSals, NonNull(PSAL), TitleSurfSal, TitleSalDist)

\* exactly 10 near-surface temperatures out of 11: the histogram is the
\* distribution of all 11
HistogramSubsetWitness ==
    /\ mounted
    /\ wantsHistogram(Query)
    /\ ~PersonaHistogram
    /\ Len(NearSurfaceTemps) = 10
    /\ Len(NonNull(TEMP)) = 11
    /\ Len(Titled(TitleTempDist)) = 1
    /\ Len(Titled(TitleTempDist)[1].data[1].x) = 11
    /\ Len(Titled(TitleSurfTemp)) = 0

\* the candidates that the override put before the persona block
Front ==
    SubSeq(candidates, 1,
           Len(candidates) - Len(PersonaBlock) - Len(TSChart(normalizedData))
               - Len(HeatmapChart(normalizedData)) - Len(MonthlyChart(normalizedData)))

\* the candidates from the persona block on
Rest == SubSeq(candidates, Len(Front) + 1, Len(candidates))

\* C20: the histograms of the override are among the candidates exactly when
\* the intent asks for a histogram and the persona block holds no histogram;
\* they then stand before every chart of the persona block, and otherwise
\* the candidates are the persona block and the advanced charts alone.
HistogramInsertion ==
    (mounted /\ hasData(data)) =>
        /\ Rest = PersonaBlock \o TSChart(normalizedData)
                     \o HeatmapChart(normalizedData) \o MonthlyChart(normalizedData)
        /\ Range(Front)
              = (IF wantsHistogram(Query) /\ ~PersonaHistogram
                 THEN Range(HistVisuals(normalizedData)) ELSE {})
        /\ Len(Front)
              = (IF wantsHistogram(Query) /\ ~PersonaHistogram
                 THEN Len(HistVisuals(normalizedData)) ELSE 0)

\* Researcher under a histogram intent: two histograms before the persona's
\* three charts
HistogramInsertionWitness ==
    /\ mounted
    /\ wantsHistogram(Query)
    /\ Len(PersonaBlock) = 3
    /\ ~PersonaHistogram
    /\ Len(Front) = 2
    /\ \A i \in 1..Len(Front) : Front[i].type = "histogram"
    /\ Rest[1] = PersonaBlock[1]

\* Fisherman under a histogram intent: the persona's own histograms and
\* nothing before them
HistogramKeptWitness ==
    /\ mounted
    /\ wantsHistogram(Query)
    /\ PersonaHistogram
    /\ Len(Front) = 0
    /\ Len(HistVisuals(normalizedData)) > 0

\* C21: when the override inserts a temperature and a salinity histogram,
\* they stand at the front of the candidates in the order the block builds
\* them: the temperature histogram first, the salinity histogram second.
HistogramOrder ==
    (mounted /\ hasData(data) /\ wantsHistogram(Query) /\ ~PersonaHistogram
        /\ Len(HistVisuals(normalizedData)) = 2)
        => /\ Len(Front) = 2
           /\ Front = HistVisuals(normalizedData)
           /\ Front[1].title \in {TitleSurfTemp, TitleTempDist}
           /\ Front[2].title \in {TitleSurfSal, TitleSalDist}

AdvancedTitles == {TitleTS, TitleHeatmap, TitleMonthly}

\* the advanced charts of a candidate list
Advanced(cs) == SelectSeq(cs, LAMBDA v : v.title \in AdvancedTitles)

\* C22: for the dataset at hand, the T-S diagram, the time-depth heatmap and
\* the monthly box plot among the candidates, and the content of each, are
\* those of the render under any other persona and any other intent.
AdvancedIndependent ==
    (mounted /\ data \in Datasets) =>
        \A p \in Professions : \A text \in Intents :
            Advanced(Rendered[data][p][text].candidates) = Advanced(candidates)

\* all three advanced charts under a persona other than Researcher and an
\* intent that is not empty
AdvancedIndependentWitness ==
    /\ mounted
    /\ profession = Fisherman
    /\ intent = IntentHistogram
    /\ Len(Advanced(candidates)) = 3
    /\ Advanced(candidates)
          = Advanced(Rendered[data][DefaultProfession][EmptyText].candidates)

\* the rows whose TIME, PRES and TEMP are not null, in their order
HeatRowsOf == 
    SelectSeq(normalizedData,
              LAMBDA d : TIME(d) # Null /\ PRES(d) # Null /\ TEMP(d) # Null)

\* the number of rows the heatmap is built from: at most 5000
Capped(n) == IF n > 5000 THEN 5000 ELSE n

\* the chart is the heatmap of the first n of the rows
HeatmapOfFirst(v, rows, n) ==
    /\ Len(v.data) = 1
    /\ Len(v.data[1].x) = n
    /\ Len(v.data[1].y) = n
    /\ Len(v.data[1].z) = n
    /\ n <= 5000
    /\ \A k \in 1..n :
          /\ v.data[1].x[k] = NewDate(TIME(rows[k]))
          /\ v.data[1].y[k] = PRES(rows[k])
          /\ v.data[1].z[k] = TEMP(rows[k])

\* C23: the heatmap is built from the first 5000, in dataset order, of the
\* rows whose TIME, PRES and TEMP are not null; it is a candidate exactly when
\* these are more than 20, and its x, y and z never hold more than 5000 values.
HeatmapCapGate ==
    mounted =>
        IF Capped(Len(HeatRowsOf)) > 20
        THEN /\ Len(Titled(TitleHeatmap)) = 1
             /\ HeatmapOfFirst(Titled(TitleHeatmap)[1], HeatRowsOf, Capped(Len(HeatRowsOf)))
        ELSE Len(Titled(TitleHeatmap)) = 0

\* 5002 rows of which 5001 qualify: a heatmap of 5000 points
HeatmapCapGateWitness ==
    /\ mounted
    /\ Len(normalizedData) = 5002
    /\ Len(HeatRowsOf) = 5001
    /\ Len(Titled(TitleHeatmap)) = 1
    /\ Len(Titled(TitleHeatmap)[1].data[1].x) = 5000

\* some row has a TEMP or a PSAL that is not null
SomeValue ==
    \E i \in 1..Len(normalizedData) :
        TEMP(normalizedData[i]) # Null \/ PSAL(normalizedData[i]) # Null

\* C24: when the intent matches the histogram pattern and some row has a TEMP
\* or a PSAL that is not null, the ranked list is, for every persona, not
\* empty and made of histograms only.
HistogramsOnly ==
    (mounted /\ hasData(data) /\ wantsHistogram(Query) /\ SomeValue) =>
        /\ Len(visualizations) > 0
        /\ \A i \in 1..Len(visualizations) :
              /\ visualizations[i].type = "histogram"
              /\ IsHistogram(visualizations[i])

\* Policymaker, whose own block holds a bar chart only, under a histogram
\* intent: the ranked list is the two histograms of the override
HistogramsOnlyWitness ==
    /\ mounted
    /\ profession = Policymaker
    /\ wantsHistogram(Query)
    /\ SomeValue
    /\ Len(BarCharts) = 1
    /\ Len(visualizations) = 2
    /\ \A i \in 1..Len(visualizations) : visualizations[i].type = "histogram"

\* the Researcher charts and the advanced charts as the non-null filters and
\* the size thresholds alone decide them
Ungated(nd) ==
    ChartIf(TRUE, TempData(nd), "scatter", ProfileTrace(TempData(nd), TEMP), TitleTempPres)
    \o ChartIf(TRUE, SalData(nd), "scatter", ProfileTrace(SalData(nd), PSAL), TitleSalPres)
    \o ChartIf(TRUE, TimeData(nd), "scatter", TimeTrace(TimeData(nd)), TitleTempTime)
    \o TSOf(TRUE, SelectSeq(nd, LAMBDA d : TEMP(d) # Null /\ PSAL(d) # Null))
    \o HeatmapOf(TRUE,
                 Slice(SelectSeq(nd, LAMBDA d : TIME(d) # Null /\ PRES(d) # Null
                                                   /\ TEMP(d) # Null),
                       HeatmapCap))
    \o MonthlyFrom(TRUE, ByMonth(nd, Len(nd)))

\* C25: every normalized row has each canonical field set, to a value or to
\* null, so hasTemp, hasSal and hasTime hold for every non-empty dataset, and
\* the candidates are those that the non-null filters and the size
\* thresholds decide without the three predicates.
AvailabilityAlways ==
    (mounted /\ hasData(data)) =>
        /\ \A i \in 1..Len(normalizedData) : \A c \in CanonicalKeys :
              /\ c \in DOMAIN normalizedData[i]
              /\ normalizedData[i][c] # Undef
        /\ hasTemp(normalizedData)
        /\ hasSal(normalizedData)
        /\ hasTime(normalizedData)
        /\ (Prof(profession) = ToLowerCase(DefaultProfession) /\ ~wantsHistogram(Query))
              => candidates = Ungated(normalizedData)

\* a single row with none of the keys of temperature, salinity and time: the
\* three predicates hold and no chart is emitted
AvailabilityAlwaysWitness ==
    /\ mounted
    /\ Len(data.rows) = 1
    /\ DOMAIN data.rows[1] \cap (TempKeys \cup SalKeys \cup TimeKeys) = {}
    /\ hasTemp(normalizedData)
    /\ hasSal(normalizedData)
    /\ hasTime(normalizedData)
    /\ candidates = <<>>

\* C26: after any sequence of changes of the dataset, the persona and the
\* intent and of tab clicks, the active tab is the data table or a chart
\* index of the current ranked list; in particular the list is not empty
\* when "viz-0" is active.
ActiveTabValid ==
    mounted =>
        \/ activeTab = Table
        \/ activeTab.kind = "viz" /\ activeTab.index \in 0..(Len(visualizations) - 1)

-----------------------------------------------------------------------------
(* The Dashboard's properties *)

\* the calls started through execute that have not settled
InFlight == Calls("chatQuery") \cup Calls("analyzeLocation")

\* C27: loading is true whenever a call started through execute has not
\* settled yet, so that it is false only when every such call has resolved
\* or rejected, whatever the order of the starts and the completions.
LoadingWhileInFlight == InFlight # {} => loading

\* the sample fetch of the auto-load effect stores its rows in this step
AutoLoadStores ==
    /\ \E p \in Calls("autoLoad") : p \notin pending'
    /\ visualizationData' # visualizationData

\* C28: the auto-load effect stores its sample rows only if the
\* visualization data is still empty at the moment it stores them, whatever
\* chat queries, insights and SQL runs settle while its fetch is in flight.
AutoLoadKeepsData == [][AutoLoadStores => IsEmpty(visualizationData)]_vars

\* a poll result reports a cycle other than the one recorded for the float
Moved(r, last) ==
    last[r.platform_number] # Undef /\ r.cycle_number # last[r.platform_number]

MovedRows(rows, last) == SelectSeq(rows, LAMBDA r : Moved(r, last))

\* one "Live update" message for each float that moved, in the result's order
UpdatesOf(moved) ==
    [i \in DOMAIN moved |-> LiveUpdate(moved[i].platform_number, moved[i].cycle_number)]

\* the poll p of a session settles with rows: the log grows by the updates of
\* the floats that moved, and the session records every reported cycle
PollTracked(p, rows) ==
    /\ messages' = messages \o UpdatesOf(MovedRows(rows, lastCycles[p.of]))
    /\ \A i \in DOMAIN rows :
           lastCycles'[p.of][rows[i].platform_number] = rows[i].cycle_number
    /\ \A s \in DOMAIN lastCycles : s # p.of => lastCycles'[s] = lastCycles[s]

PollStarts == \E p \in pending' \ pending : p.op = "poll"

\* C29: within a tracker session, a poll result appends no message for a
\* float the session had not seen and exactly one "Live update" message for
\* each float whose cycle differs from the one last recorded for it, and no
\* poll starts while the tracker is off.
TrackerUpdates ==
    /\ [][\A p \in pending \ pending' : \A res \in PollReplies :
              res.body /\ liveFloats' = RowsIn(res) /\ PollResolve(p, res)
                  => PollTracked(p, RowsIn(res))]_vars
    /\ [][PollStarts => liveTrackerOn']_vars

\* the first session saw every float and one of them move, which is the
\* only message in the log, and the tracker is off
TrackerUpdatesWitness ==
    /\ ~liveTrackerOn
    /\ timer = 0
    /\ \A f \in Floats : lastCycles[1][f] # Undef
    /\ Len(messages) = 1
    /\ messages[1].content.say = "Live update"

IsPrefix(s, t) == Len(s) <= Len(t) /\ SubSeq(t, 1, Len(s)) = s

\* what askGeneral may say about a chat request
ChatSays ==
    {"response", "Query request failed", "Generated SQL Query", "SQL returned",
     "SQL execution error"}

IsRequest(m, n) == m.role = "user" /\ m.content.about = n
IsReply(m, n) == m.role = "assistant" /\ m.content.about = n /\ m.content.say \in ChatSays

Sent(n) == \E i \in DOMAIN messages : IsRequest(messages[i], n)

Replied(n) ==
    \E i, j \in DOMAIN messages :
        /\ i < j
        /\ IsRequest(messages[i], n)
        /\ IsReply(messages[j], n)
        /\ messages[j].content.say \in {"response", "Query request failed"}

\* every reply stands after the user message that it answers
RequestFirst ==
    \A j \in DOMAIN messages : \A n \in 1..MaxLog :
        IsReply(messages[j], n) => \E i \in 1..(j - 1) : IsRequest(messages[i], n)

\* a non-blank text is appended as it was typed
SendAppends ==
    \A text \in Texts :
        SendMessage(text) =>
            /\ Trim(text) # <<>>
            /\ messages' = Append(messages, UserMessage(text, NextRequest))

\* C30: a non-blank message sent through handleSendMessage is appended to
\* the log before any reply to it and, its call settling, is eventually
\* followed by an assistant message, the response or a failure notice; the
\* log only ever grows at its end.
ChatLogResponse ==
    /\ [][SendAppends]_vars
    /\ [][IsPrefix(messages, messages')]_vars
    /\ []RequestFirst
    /\ \A n \in 1..MaxLog : Sent(n) ~> Replied(n)

\* two requests overlapped: the first was answered by a failure notice after
\* the second was sent, and the second by its response
ChatLogResponseWitness ==
    /\ Replied(1)
    /\ Replied(2)
    /\ \E i, j \in DOMAIN messages :
           /\ i < j
           /\ IsRequest(messages[i], 2)
           /\ IsReply(messages[j], 1)
           /\ messages[j].content.say = "Query request failed"

====
